---- MODULE Spec2Model ----
(***************************************************************************)
(* Retail Radar: geo-aware product search, store lookup, inventory and     *)
(* order management.                                                       *)
(*                                                                         *)
(* Units.  Latitudes and longitudes are integers in 1/10000 of a degree    *)
(* (40.6892 degrees is 406892).  Distances and radii are integers in       *)
(* tenths of a mile, the resolution calculateDistance rounds to (2.3 miles *)
(* is 23).  Prices are integers.                                           *)
(*                                                                         *)
(* JavaScript values.  A value that comes from a JSON body is a record    *)
(* [kind, num, str]: kind is "undefined" (field absent), "number" (num is  *)
(* its value) or "string" (str is its characters).  The number NaN is the  *)
(* integer NaN below; comparisons and arithmetic on values that can be NaN *)
(* or strings go through the Js* operators, which give <, + and - their    *)
(* JavaScript meaning.  Timestamps are left out; the billing period of a   *)
(* subscription is kept, in days.                                          *)
(***************************************************************************)
EXTENDS Integers, Sequences, FiniteSets, TLC

(***************************************************************************)
(* Bounds of the model.                                                    *)
(***************************************************************************)
\* calculateDistance is evaluated in integer arithmetic for points at most
\* Window (0.2 degrees) apart on each axis; farther pairs are FarDistance.
Window == 2000
FarDistance == 99999

(***************************************************************************)
(* Program constants.                                                      *)
(***************************************************************************)
EarthRadius == 3959
MilesPerDegree == 69
DefaultLat == 406892
DefaultLng == -739857
DefaultRadius == 100
MaxRadius == 500
StoresDefaultRadius == 100
NaN == -999999

(***************************************************************************)
(* JavaScript values and conversions.                                      *)
(***************************************************************************)
\* A value read from a JSON body: undefined, a number, or a string.  Nothing
\* in the routes converts a validated string to a number, so a numeral sent
\* as a string stays a string.
Undefined == [kind |-> "undefined", num |-> 0, str |-> <<>>]
Num(n) == [kind |-> "number", num |-> n, str |-> <<>>]
Str(s) == [kind |-> "string", num |-> 0, str |-> s]
\* a string that is no numeral
Text == Str(<<"x">>)

Digits == <<"0", "1", "2", "3", "4", "5", "6", "7", "8", "9">>
IsDigit(c) == \E d \in 1..10 : Digits[d] = c
DigitOf(c) == (CHOOSE d \in 1..10 : Digits[d] = c) - 1

\* String(n) of a non-negative integer
RECURSIVE NatToString(_)
NatToString(n) ==
  IF n < 10 THEN <<Digits[n + 1]>>
  ELSE Append(NatToString(n \div 10), Digits[(n % 10) + 1])

\* String(n)
NumberToString(n) ==
  IF n = NaN THEN <<"N", "a", "N">>
  ELSE IF n < 0 THEN <<"-">> \o NatToString(-n)
  ELSE NatToString(n)

\* the value of a sequence of digits
RECURSIVE DigitsValue(_)
DigitsValue(s) ==
  IF s = <<>> THEN 0
  ELSE 10 * DigitsValue(SubSeq(s, 1, Len(s) - 1)) + DigitOf(s[Len(s)])

\* the longest prefix of s made of digits
RECURSIVE LeadingDigits(_)
LeadingDigits(s) ==
  IF s = <<>> \/ ~IsDigit(Head(s)) THEN <<>>
  ELSE <<Head(s)>> \o LeadingDigits(Tail(s))

\* Number(s) of a string: the whole string must be a numeral
StringToNumber(s) ==
  IF s = <<>> THEN 0
  ELSE IF \A i \in 1..Len(s) : IsDigit(s[i]) THEN DigitsValue(s)
  ELSE IF Head(s) = "-" /\ Len(s) > 1 /\ \A i \in 2..Len(s) : IsDigit(s[i])
       THEN -DigitsValue(Tail(s))
  ELSE NaN

\* the numeric conversion the operators -, *, / and a mixed < apply
ToNumber(v) ==
  IF v.kind = "number" THEN v.num
  ELSE IF v.kind = "string" THEN StringToNumber(v.str)
  ELSE IF v.kind = "null" THEN 0
  ELSE NaN

\* parseInt(v): the numeral a string starts with, NaN where it starts with none
ParseInt(v) ==
  IF v.kind = "number" THEN v.num
  ELSE IF v.kind = "string" THEN
    LET neg == v.str # <<>> /\ Head(v.str) = "-"
        ds == LeadingDigits(IF neg THEN Tail(v.str) ELSE v.str)
    IN IF ds = <<>> THEN NaN ELSE IF neg THEN -DigitsValue(ds) ELSE DigitsValue(ds)
  ELSE NaN

\* parseFloat(v); the numerals of the model carry no fraction part
ParseFloat(v) == ParseInt(v)

\* isInt / isFloat of the validators accept a number and a string that is its
\* numeral
IsNumeric(v) ==
  \/ v.kind = "number" /\ v.num # NaN
  \/ v.kind = "string" /\ StringToNumber(v.str) # NaN /\ NumberToString(StringToNumber(v.str)) = v.str

\* String(v), as + applies it to the other operand of a string
ToStr(v) ==
  IF v.kind = "string" THEN v.str
  ELSE IF v.kind = "number" THEN NumberToString(v.num)
  ELSE IF v.kind = "null" THEN <<"n">>
  ELSE <<"u">>

CharCode(c) ==
  IF c = "-" THEN 45 ELSE IF IsDigit(c) THEN 48 + DigitOf(c)
  ELSE IF c = "N" THEN 78 ELSE IF c = "a" THEN 97 ELSE 120

\* x < y of two strings: by code units
RECURSIVE StringLess(_, _)
StringLess(x, y) ==
  IF y = <<>> THEN FALSE
  ELSE IF x = <<>> THEN TRUE
  ELSE IF Head(x) # Head(y) THEN CharCode(Head(x)) < CharCode(Head(y))
  ELSE StringLess(Tail(x), Tail(y))

\* a < b : two strings compare as strings, anything else as numbers
JsLess(a, b) ==
  IF a.kind = "string" /\ b.kind = "string" THEN StringLess(a.str, b.str)
  ELSE ToNumber(a) # NaN /\ ToNumber(b) # NaN /\ ToNumber(a) < ToNumber(b)

\* a + b : concatenation as soon as one operand is a string
JsPlus(a, b) ==
  IF a.kind = "string" \/ b.kind = "string" THEN Str(ToStr(a) \o ToStr(b))
  ELSE IF ToNumber(a) = NaN \/ ToNumber(b) = NaN THEN Num(NaN)
  ELSE Num(a.num + b.num)

\* a - b : always numeric
JsMinus(a, b) ==
  IF ToNumber(a) = NaN \/ ToNumber(b) = NaN THEN Num(NaN)
  ELSE Num(ToNumber(a) - ToNumber(b))

\* x || d : d when x is falsy.  The falsy numbers are 0 and NaN.
JsOr(x, d) == IF x = NaN \/ x = 0 THEN d ELSE x

\* Comparisons with NaN are false.
JsLeq(a, b) == a # NaN /\ b # NaN /\ a <= b
JsGeq(a, b) == a # NaN /\ b # NaN /\ a >= b
JsLt(a, b) == a # NaN /\ b # NaN /\ a < b
JsGt(a, b) == a # NaN /\ b # NaN /\ a > b
JsMin(a, b) == IF a = NaN \/ b = NaN THEN NaN ELSE IF a < b THEN a ELSE b

Abs(x) == IF x < 0 THEN -x ELSE x

\* floor(sqrt(n)) by bisection on [lo, hi]
RECURSIVE SqrtIn(_, _, _)
SqrtIn(n, lo, hi) ==
  IF lo >= hi THEN lo
  ELSE LET mid == (lo + hi + 1) \div 2
       IN IF mid * mid <= n THEN SqrtIn(n, mid, hi) ELSE SqrtIn(n, lo, mid - 1)

ISqrt(n) == SqrtIn(n, 0, 46340)

\* Stable sort: element i goes after every element that compares less and
\* after every earlier element that compares equal (Array.prototype.sort is
\* stable, and every comparator below is a consistent ordering).
StableSort(s, Less(_, _)) ==
  LET n == Len(s)
      pos(i) == Cardinality({j \in 1..n : Less(s[j], s[i])
                                          \/ (~Less(s[i], s[j]) /\ j < i)}) + 1
  IN [p \in 1..n |-> s[CHOOSE i \in 1..n : pos(i) = p]]

MapSeq(s, F(_)) == [i \in 1..Len(s) |-> F(s[i])]

(***************************************************************************)
(* Geo utility (utils/geo).                                                *)
(***************************************************************************)
\* cos(toRadians(lat)) * 10000, by the Taylor series of cos in fixed point;
\* lat in 1/10000 degree, x in 1/10000 radian.
Cos4(lat) ==
  LET x == ((lat \div 10) * 17453) \div 100000
      x2 == (x * x) \div 10000
      x4 == (x2 * x2) \div 10000
      x6 == (x4 * x2) \div 10000
  IN 10000 - (x2 \div 2) + (x4 \div 24) - (x6 \div 720)

\* Haversine distance in tenths of a mile, rounded to the nearest tenth as
\* toFixed(1) does.  For the short arcs of the model sin(x) = x and
\* atan2(sqrt a, sqrt(1-a)) = sqrt a to within 10^-6, so that
\* R*c = R * toRadians(sqrt(dLat^2 + cos(lat1)*cos(lat2)*dLng^2)).
\* q is that square root in 1/100000 degree; R * pi/180 = 69.097 miles per
\* degree.
calculateDistance(lat1, lng1, lat2, lng2) ==
  LET dLat == Abs(lat2 - lat1)
      dLng == Abs(lng2 - lng1)
      cc == (Cos4(lat1) * Cos4(lat2)) \div 10000
      a == dLat * dLat + ((((cc * dLng) \div 100) * dLng) \div 100)
      q == ISqrt(100 * a)
      milesPerDegree1000 == (EarthRadius * 174533) \div 10000
  IN IF dLat > Window \/ dLng > Window THEN FarDistance
     ELSE (q * milesPerDegree1000 + 5000000) \div 10000000

\* The box in 1/100000 degree.  A NaN radius gives a box of NaNs.
getBoundingBox(lat, lng, radiusMiles) ==
  IF radiusMiles = NaN
  THEN [minLat |-> NaN, maxLat |-> NaN, minLng |-> NaN, maxLng |-> NaN]
  ELSE LET latDelta == (radiusMiles * 10000) \div MilesPerDegree
           lngDelta == (latDelta * 10000) \div Cos4(lat)
       IN [minLat |-> lat * 10 - latDelta, maxLat |-> lat * 10 + latDelta,
           minLng |-> lng * 10 - lngDelta, maxLng |-> lng * 10 + lngDelta]

InBox(s, box) ==
  /\ JsGeq(s.lat * 10, box.minLat) /\ JsLeq(s.lat * 10, box.maxLat)
  /\ JsGeq(s.lng * 10, box.minLng) /\ JsLeq(s.lng * 10, box.maxLng)

WithDistance(s, lat, lng) ==
  [storeId |-> s.storeId, retailer |-> s.retailer, lat |-> s.lat, lng |-> s.lng,
   distance |-> calculateDistance(lat, lng, s.lat, s.lng)]

\* findNearbyStores without its final sort
findNearbyStores_Unsorted(storeList, lat, lng, radiusMiles) ==
  LET box == getBoundingBox(lat, lng, radiusMiles)
      boxed == SelectSeq(storeList, LAMBDA s : InBox(s, box))
      measured == MapSeq(boxed, LAMBDA s : WithDistance(s, lat, lng))
  IN SelectSeq(measured, LAMBDA s : JsLeq(s.distance, radiusMiles))

findNearbyStores(storeList, lat, lng, radiusMiles) ==
  LET box == getBoundingBox(lat, lng, radiusMiles)
      boxed == SelectSeq(storeList, LAMBDA s : InBox(s, box))
      measured == MapSeq(boxed, LAMBDA s : WithDistance(s, lat, lng))
      inRadius == SelectSeq(measured, LAMBDA s : JsLeq(s.distance, radiusMiles))
  IN StableSort(inRadius, LAMBDA x, y : x.distance < y.distance)

\* Pure band lookup on a distance in tenths of a mile.
estimateDeliveryTime(distanceMiles) ==
  IF distanceMiles <= 20 THEN [pickup |-> "10-15 min", delivery |-> "15-25 min"]
  ELSE IF distanceMiles <= 50 THEN [pickup |-> "15-25 min", delivery |-> "25-35 min"]
  ELSE IF distanceMiles <= 100 THEN [pickup |-> "20-30 min", delivery |-> "35-50 min"]
  ELSE IF distanceMiles <= 200 THEN [pickup |-> "30-45 min", delivery |-> "50-75 min"]
  ELSE [pickup |-> "45-60 min", delivery |-> "75-90 min"]

(***************************************************************************)
(* Stores (data/catalog generateStores, models/database getAllStores).     *)
(* Six New York stores.  generateStores names a store by the first three   *)
(* letters of its retailer key, the state and the retailer's counter, so   *)
(* the first Brooklyn stores of walmart and walgreens are both WAL_NY01,   *)
(* at the same coordinates.                                                *)
(***************************************************************************)
BrooklynLat == 406782
BrooklynLng == -739442

Store(id, r, la, ln) == [storeId |-> id, retailer |-> r, lat |-> la, lng |-> ln]

SeedStores ==
  << Store("HOM_NY01", "homedepot", BrooklynLat, BrooklynLng),
     Store("LOW_NY01", "lowes", BrooklynLat + 145, BrooklynLng),
     Store("WAL_NY01", "walmart", BrooklynLat, BrooklynLng + 100),
     Store("WAL_NY01", "walgreens", BrooklynLat, BrooklynLng + 100),
     Store("TAR_NY01", "target", BrooklynLat, BrooklynLng - 100),
     Store("ACE_NY01", "acehardware", BrooklynLat + 300, BrooklynLng + 400) >>

Range(s) == {s[i] : i \in 1..Len(s)}

Reverse(s) == [i \in 1..Len(s) |-> s[Len(s) + 1 - i]]

\* the sub-sequences of s, in the order of s
RECURSIVE SubSeqs(_)
SubSeqs(s) ==
  IF s = <<>> THEN {<<>>}
  ELSE LET rest == SubSeqs(Tail(s))
       IN rest \cup {<<Head(s)>> \o t : t \in rest}

StoreLists == SubSeqs(SeedStores) \cup SubSeqs(Reverse(SeedStores))

(***************************************************************************)
(* Strings are sequences of one-character strings.                         *)
(***************************************************************************)
Chars == {"a", "b", "A", " "}

ToLowerChar(c) == IF c = "A" THEN "a" ELSE IF c = "B" THEN "b" ELSE c

toLowerCase(str) == [i \in 1..Len(str) |-> ToLowerChar(str[i])]

\* String.prototype.trim
RECURSIVE trim(_)
trim(str) ==
  IF str = <<>> THEN str
  ELSE IF Head(str) = " " THEN trim(Tail(str))
  ELSE IF str[Len(str)] = " " THEN trim(SubSeq(str, 1, Len(str) - 1))
  ELSE str

\* str.includes(term): term occurs in str as a contiguous substring
includes(str, term) ==
  \E i \in 1..(Len(str) - Len(term) + 1) : SubSeq(str, i, i + Len(term) - 1) = term

\* str.split(/\s+/).filter(Boolean): the maximal runs of non-space characters
RECURSIVE SplitFrom(_, _)
SplitFrom(str, cur) ==
  IF str = <<>> THEN (IF cur = <<>> THEN <<>> ELSE <<cur>>)
  ELSE IF Head(str) = " "
       THEN (IF cur = <<>> THEN <<>> ELSE <<cur>>) \o SplitFrom(Tail(str), <<>>)
       ELSE SplitFrom(Tail(str), Append(cur, Head(str)))

splitWords(str) == SplitFrom(str, <<>>)

\* keywords.join(sep)
RECURSIVE join(_, _)
join(words, sep) ==
  IF words = <<>> THEN <<>>
  ELSE IF Len(words) = 1 THEN words[1]
  ELSE words[1] \o sep \o join(Tail(words), sep)

\* the strings over Chars of length at most n
RECURSIVE StringsUpTo(_)
StringsUpTo(n) ==
  IF n = 0 THEN {<<>>}
  ELSE LET shorter == StringsUpTo(n - 1)
       IN shorter \cup {Append(w, c) : w \in shorter, c \in Chars}

\* a.localeCompare(b) < 0: letters first compared without case, a lower-case
\* letter before its capital when the strings differ in case only.
CharRank(c) == IF c = " " THEN 0 ELSE IF ToLowerChar(c) = "a" THEN 1 ELSE 2

RECURSIVE LexLess(_, _)
LexLess(x, y) ==
  IF y = <<>> THEN FALSE
  ELSE IF x = <<>> THEN TRUE
  ELSE IF CharRank(Head(x)) # CharRank(Head(y)) THEN CharRank(Head(x)) < CharRank(Head(y))
  ELSE LexLess(Tail(x), Tail(y))

RECURSIVE CaseLess(_, _)
CaseLess(x, y) ==
  IF x = <<>> \/ y = <<>> THEN FALSE
  ELSE IF Head(x) # Head(y) THEN Head(x) = ToLowerChar(Head(x))
  ELSE CaseLess(Tail(x), Tail(y))

localeCompareLess(x, y) ==
  LexLess(x, y) \/ (~LexLess(y, x) /\ Len(x) = Len(y) /\ CaseLess(x, y))

(***************************************************************************)
(* Product catalog (data/catalog PRODUCTS): immutable reference data.      *)
(***************************************************************************)
Product(sku, name, price, category, keywords, retailers) ==
  [sku |-> sku, name |-> name, price |-> price, category |-> category,
   keywords |-> keywords, retailers |-> retailers]

PRODUCTS ==
  << Product("RR-PT-001", <<"A", "b">>, 10, <<"b", "a">>,
             << <<"a">>, <<"b">> >>, {"homedepot", "lowes", "walmart", "walgreens"}),
     Product("RR-PT-002", <<"b">>, 20, <<"a">>,
             << <<"a", "b">> >>, {"homedepot", "target", "walmart"}),
     Product("RR-PT-003", <<"B", "b">>, 30, <<"a">>,
             << <<"b">> >>, {"acehardware", "target", "lowes"}) >>

(***************************************************************************)
(* Inventory (models/database seedInventory): one record per product and   *)
(* store of a retailer that carries it, products outermost.                *)
(***************************************************************************)
Inv(id, storeId, retailer, p, price, quantity) ==
  [id |-> id, storeId |-> storeId, retailer |-> retailer, productSku |-> p.sku,
   productName |-> p.name, price |-> price, quantity |-> Num(quantity), inStock |-> TRUE]

SeedInventory ==
  << Inv(1, "HOM_NY01", "homedepot", PRODUCTS[1], 10, 3),
     Inv(2, "LOW_NY01", "lowes", PRODUCTS[1], 9, 2),
     Inv(3, "WAL_NY01", "walmart", PRODUCTS[1], 8, 2),
     Inv(4, "WAL_NY01", "walgreens", PRODUCTS[1], 12, 2),
     Inv(5, "HOM_NY01", "homedepot", PRODUCTS[2], 20, 2),
     Inv(6, "TAR_NY01", "target", PRODUCTS[2], 18, 2),
     Inv(7, "WAL_NY01", "walmart", PRODUCTS[2], 17, 2),
     Inv(8, "LOW_NY01", "lowes", PRODUCTS[3], 28, 2),
     Inv(9, "TAR_NY01", "target", PRODUCTS[3], 25, 2),
     Inv(10, "ACE_NY01", "acehardware", PRODUCTS[3], 30, 2) >>

(***************************************************************************)
(* State.                                                                  *)
(***************************************************************************)
VARIABLES
  stores,      \* _allStores, the list getAllStores() returns
  products,    \* the PRODUCTS array of the catalog
  inventory,   \* the inventory array
  nearbyReq,   \* query string of the GET /api/stores/nearby being served
  nearbyRes,   \* its response; status 0 while none has been sent
  req,         \* body of the POST /api/search being served
  res,         \* its response; status 0 while none has been sent
  walk,        \* result pages a client has collected from page 1 on
  sortChoice,  \* how the engine orders elements whose comparator returns NaN
  orders,      \* the orders array
  notifications, \* the notifications array
  nextId,      \* the next identifier uuidv4() hands out
  shopRes,     \* response to the last order, inventory or dashboard request
  placed,      \* per order: the inventory as it was before the order,
               \* whether the inventory has not changed since the order did,
               \* and how many times its lines have been given back
  budget,      \* requests the clients of the shop routes have yet to send
  statusCaller, \* req.user.role of the last PUT /api/orders/:id/status served
  sqliteDb,    \* sqlite.db: "missing", "throwing" (exec throws) or "open"
  queryCall,   \* the call into the query layer being served
  queryRet,    \* how that call ended: returned a value or threw
  sqlInventory, \* the rows of the SQLite inventory table
  sqlOrders,   \* the rows of the SQLite orders table
  sqlUsers,    \* the rows of the SQLite users table
  sqlSubscriptions, \* the rows of the SQLite subscriptions table
  dbFile,      \* the database file at DB_PATH: NoFile or the tables it holds
  users,       \* the users array
  subscriptions, \* the subscriptions array (B2B)
  consumerSubscriptions, \* the consumerSubscriptions array
  clock,       \* Date.now(), in days
  acctRes,     \* response to the last subscription, claim or store-order request
  initPc,      \* per request of the serverless handler: how far its db.init() is
  initialized, \* the initialized flag of db/sqlite
  dbInitialized, \* the _initialized flag of models/database
  handlerInitialized \* the initialized flag of the serverless entry point

geoVars == <<nearbyReq, nearbyRes>>
searchVars == <<req, res, walk, products>>
shopVars == <<orders, notifications, nextId, shopRes, placed, budget, statusCaller>>
dbVars == <<inventory, sortChoice, shopVars>>
queryVars == <<sqliteDb, queryCall, queryRet>>
sqlVars == <<sqlInventory, sqlOrders, sqlUsers, sqlSubscriptions>>
initVars == <<dbFile, initPc, initialized, dbInitialized, handlerInitialized>>
planVars == <<subscriptions, consumerSubscriptions, clock>>
acctVars == <<users, planVars, acctRes, initVars>>
vars == <<stores, products, inventory, nearbyReq, nearbyRes, req, res, walk, sortChoice,
          orders, notifications, nextId, shopRes, placed, budget, statusCaller, queryVars,
          sqlVars, acctVars>>

NoResponse == [status |-> 0]
NoRequest == [none |-> TRUE]
NoCall == [fn |-> "none"]
NoReturn == [outcome |-> "none", value |-> <<>>]
QueryIdle == sqliteDb = "open" /\ queryCall = NoCall /\ queryRet = NoReturn

\* a JSON null, as a NULL column reads back
Null == [kind |-> "null", num |-> 0, str |-> <<>>]

\* save.inventory: the row upsert binds; inStock goes in as 1 or 0 and a NaN
\* quantity is bound as NULL
inventoryRow(i) ==
  [i EXCEPT !.inStock = IF @ THEN 1 ELSE 0,
            !.quantity = IF @.kind = "number" /\ @.num = NaN THEN Null ELSE @]

\* upsert: INSERT ... ON CONFLICT(id) DO UPDATE; the statement throws where
\* price, a NOT NULL column, would be NULL, and the table stays as it was
upsert(table, row) ==
  IF row.price = NaN THEN table
  ELSE IF \E k \in 1..Len(table) : table[k].id = row.id
  THEN [k \in 1..Len(table) |-> IF table[k].id = row.id THEN row ELSE table[k]]
  ELSE Append(table, row)

\* persist.inventory for each record of a list, in order
RECURSIVE persistInventory(_, _)
persistInventory(table, items) ==
  IF items = <<>> THEN table
  ELSE persistInventory(upsert(table, inventoryRow(Head(items))), Tail(items))

\* loadTable: SELECT * in row order, inStock turned back into a boolean
loadTable(table) == [k \in 1..Len(table) |-> [table[k] EXCEPT !.inStock = (@ # 0)]]

\* the tables as init leaves them on a first start: the seeded inventory
\* bulk-inserted, no order
SqlSeeded ==
  /\ sqlInventory = persistInventory(<<>>, SeedInventory) /\ sqlOrders = <<>>
  /\ sqlUsers = <<>> /\ sqlSubscriptions = <<>>

NoFile == [exists |-> FALSE]

NoAcctResponse == [status |-> 0, message |-> "", storeId |-> "", plan |-> ""]

\* the requests the serverless handler is given before the instance is warm
InitCalls == {1, 2}

\* init has finished on a new database, nobody has registered or subscribed
AcctIdle ==
  /\ users = <<>> /\ subscriptions = <<>> /\ consumerSubscriptions = <<>>
  /\ clock = 0 /\ acctRes = NoAcctResponse
  /\ dbFile = NoFile
  /\ initPc = [p \in InitCalls |-> "done"]
  /\ initialized = TRUE /\ dbInitialized = TRUE /\ handlerInitialized = TRUE

NoShopResponse == [status |-> 0, message |-> "", id |-> 0]

\* no order has been placed and no shop request is to come
ShopIdle ==
  /\ orders = <<>> /\ notifications = <<>> /\ placed = <<>>
  /\ nextId = 1 /\ shopRes = NoShopResponse /\ budget = 0
  /\ statusCaller = "none"

(***************************************************************************)
(* GET /api/stores/nearby (routes/stores).                                 *)
(***************************************************************************)
CoordInputs == {Undefined, Text, Num(0), Num(BrooklynLat), Num(DefaultLat)}
LngInputs == {Undefined, Text, Num(0), Num(BrooklynLng), Num(DefaultLng)}
RadiusInputs == {Undefined, Text, Num(0), Num(5), Num(10), Num(30), Num(100)}

NearbyRequests == [lat : CoordInputs, lng : LngInputs, radius : RadiusInputs]

WithEstimate(s) ==
  [storeId |-> s.storeId, retailer |-> s.retailer, lat |-> s.lat, lng |-> s.lng,
   distance |-> s.distance, deliveryEstimate |-> estimateDeliveryTime(s.distance)]

NearbyResponse(q) ==
  LET radius == IF q.radius.kind = "undefined" THEN Num(StoresDefaultRadius) ELSE q.radius
      userLat == JsOr(ParseFloat(q.lat), DefaultLat)
      userLng == JsOr(ParseFloat(q.lng), DefaultLng)
      found == findNearbyStores(stores, userLat, userLng, ParseFloat(radius))
      withEstimates == MapSeq(found, WithEstimate)
  IN [status |-> 200,
      location |-> [lat |-> userLat, lng |-> userLng, radius |-> ParseFloat(radius)],
      count |-> Len(withEstimates),
      stores |-> withEstimates]

NearbyStores ==
  /\ nearbyRes = NoResponse
  /\ nearbyRes' = NearbyResponse(nearbyReq)
  /\ UNCHANGED <<stores, nearbyReq, searchVars, dbVars, queryVars, sqlVars, acctVars>>

InitStores ==
  /\ stores \in StoreLists
  /\ products = PRODUCTS
  /\ QueryIdle
  /\ SqlSeeded
  /\ AcctIdle
  /\ nearbyReq \in NearbyRequests
  /\ nearbyRes = NoResponse
  /\ inventory = SeedInventory
  /\ req = NoRequest /\ res = NoResponse /\ walk = <<>>
  /\ sortChoice = 1 /\ ShopIdle

NextStores == NearbyStores

SpecStores == InitStores /\ [][NextStores]_vars

(***************************************************************************)
(* POST /api/search (routes/search), with its validation rules.            *)
(***************************************************************************)
DefaultLimit == 20
MaxLimit == 100
MissingDistance == 9990
AllStoresShown == 5

OptionalNumber(v, lo, hi) ==
  v.kind # "undefined" => (IsNumeric(v) /\ ToNumber(v) >= lo /\ ToNumber(v) <= hi)

\* rules.search: an absent field passes, a present one must be in range
ValidSearch(b) ==
  /\ OptionalNumber(b.lat, -900000, 900000)
  /\ OptionalNumber(b.lng, -1800000, 1800000)
  /\ OptionalNumber(b.radius, 1, MaxRadius)
  /\ b.minPrice.kind # "undefined" => (IsNumeric(b.minPrice) /\ ToNumber(b.minPrice) >= 0)
  /\ b.maxPrice.kind # "undefined" => (IsNumeric(b.maxPrice) /\ ToNumber(b.maxPrice) >= 0)
  /\ b.sortBy \in {"undefined", "price", "distance", "name", "relevance"}
  /\ b.page.kind # "undefined" => (IsNumeric(b.page) /\ ToNumber(b.page) >= 1)
  /\ OptionalNumber(b.limit, 1, MaxLimit)

RECURSIVE SumSeq(_)
SumSeq(ns) == IF ns = <<>> THEN 0 ELSE Head(ns) + SumSeq(Tail(ns))

keywordStrOf_NoSeparator(product) == toLowerCase(join(product.keywords, <<>>))

keywordStrOf(product) == toLowerCase(join(product.keywords, <<" ">>))

TermScore(product, term) ==
  (IF includes(toLowerCase(product.name), term) THEN 3 ELSE 0)
  + (IF includes(keywordStrOf(product), term) THEN 2 ELSE 0)
  + (IF includes(product.category, term) THEN 1 ELSE 0)

relevanceScore(product, searchTerms) ==
  SumSeq(MapSeq(searchTerms, LAMBDA term : TermScore(product, term)))

Scored(product, score) ==
  [sku |-> product.sku, name |-> product.name, price |-> product.price,
   category |-> product.category, keywords |-> product.keywords,
   retailers |-> product.retailers, relevanceScore |-> score]

\* Step 1: products matching the text
TextMatches(searchTerms) ==
  IF Len(searchTerms) > 0
  THEN SelectSeq(MapSeq(products, LAMBDA p : Scored(p, relevanceScore(p, searchTerms))),
                 LAMBDA p : p.relevanceScore > 0)
  ELSE MapSeq(products, LAMBDA p : Scored(p, 1))

RetailerLower(r) == IF r = "TARGET" THEN "target" ELSE r

\* Steps 2 and 3: category and retailer narrowing
NarrowedProducts(b, searchTerms) ==
  LET byCategory == IF b.category # <<>>
                    THEN SelectSeq(TextMatches(searchTerms),
                                   LAMBDA p : p.category = toLowerCase(b.category))
                    ELSE TextMatches(searchTerms)
  IN IF b.retailer # ""
     THEN SelectSeq(byCategory, LAMBDA p : RetailerLower(b.retailer) \in p.retailers)
     ELSE byCategory

\* storeMap[storeId]: the loop over nearbyStores leaves the last store of an id
storeMapGet(nearbyStores, storeId) ==
  LET last == CHOOSE i \in 1..Len(nearbyStores) :
                /\ nearbyStores[i].storeId = storeId
                /\ \A j \in (i + 1)..Len(nearbyStores) : nearbyStores[j].storeId # storeId
  IN nearbyStores[last]

\* Step 5: the records of a product at nearby stores
productInventoryOf(product, nearbyStores, b) ==
  SelectSeq(inventory, LAMBDA inv :
    /\ inv.productSku = product.sku
    /\ inv.storeId \in {st.storeId : st \in Range(nearbyStores)}
    /\ (b.inStockOnly = "false" \/ inv.inStock))

PriceFilter(inv, b) ==
  /\ ~(b.minPrice.kind # "undefined" /\ JsLt(inv.price, ParseFloat(b.minPrice)))
  /\ ~(b.maxPrice.kind # "undefined" /\ JsGt(inv.price, ParseFloat(b.maxPrice)))

filteredInvOf(product, nearbyStores, b) ==
  SelectSeq(productInventoryOf(product, nearbyStores, b), LAMBDA inv : PriceFilter(inv, b))

\* [...filteredInv].sort((a, b) => a.price - b.price)[0].price; where a price
\* is NaN the comparator is inconsistent and the engine decides the order
bestPriceOf(filteredInv) ==
  IF \E i \in 1..Len(filteredInv) : filteredInv[i].price = NaN
  THEN filteredInv[((sortChoice - 1) % Len(filteredInv)) + 1].price
  ELSE StableSort(filteredInv, LAMBDA x, y : x.price < y.price)[1].price

\* storeMap[inv.storeId]?.distance || 999
DistanceOr999(nearbyStores, inv) ==
  JsOr(storeMapGet(nearbyStores, inv.storeId).distance, MissingDistance)

nearestInvOf(filteredInv, nearbyStores) ==
  StableSort(filteredInv, LAMBDA x, y :
    DistanceOr999(nearbyStores, x) < DistanceOr999(nearbyStores, y))[1]


\* Step 5, result shaping
ResultOf(product, nearbyStores, b) ==
  LET filteredInv == filteredInvOf(product, nearbyStores, b)
      nearestInv == nearestInvOf(filteredInv, nearbyStores)
      nearestStore == storeMapGet(nearbyStores, nearestInv.storeId)
      shown == SubSeq(filteredInv, 1, IF Len(filteredInv) < AllStoresShown
                                      THEN Len(filteredInv) ELSE AllStoresShown)
  IN [product |-> [sku |-> product.sku, name |-> product.name,
                   category |-> product.category, basePrice |-> product.price],
      bestPrice |-> bestPriceOf(filteredInv),
      storeCount |-> Len(filteredInv),
      nearestStore |-> [id |-> nearestStore.storeId,
                        retailerKey |-> nearestStore.retailer,
                        distance |-> nearestStore.distance,
                        deliveryEstimate |-> estimateDeliveryTime(nearestStore.distance),
                        price |-> nearestInv.price,
                        quantity |-> nearestInv.quantity],
      allStores |-> MapSeq(shown, LAMBDA inv :
                      [storeId |-> inv.storeId,
                       retailerKey |-> storeMapGet(nearbyStores, inv.storeId).retailer,
                       distance |-> storeMapGet(nearbyStores, inv.storeId).distance,
                       price |-> inv.price, quantity |-> inv.quantity]),
      relevanceScore |-> product.relevanceScore]

UnsortedResults(b, nearbyStores) ==
  LET searchTerms == splitWords(toLowerCase(b.query))
      kept == SelectSeq(NarrowedProducts(b, searchTerms),
                        LAMBDA p : Len(filteredInvOf(p, nearbyStores, b)) > 0)
  IN MapSeq(kept, LAMBDA p : ResultOf(p, nearbyStores, b))

SortDistance(result) == JsOr(result.nearestStore.distance, MissingDistance)

\* Step 6 with a default branch that would follow sortOrder
SortResults_HonoursOrder(results, sortBy, sortOrder) ==
  IF sortBy = "price"
  THEN StableSort(results, LAMBDA x, y :
         IF sortOrder = "desc" THEN y.bestPrice < x.bestPrice ELSE x.bestPrice < y.bestPrice)
  ELSE IF sortBy = "distance"
  THEN StableSort(results, LAMBDA x, y :
         IF sortOrder = "desc" THEN SortDistance(y) < SortDistance(x)
         ELSE SortDistance(x) < SortDistance(y))
  ELSE IF sortBy = "name"
  THEN StableSort(results, LAMBDA x, y :
         IF sortOrder = "desc" THEN localeCompareLess(y.product.name, x.product.name)
         ELSE localeCompareLess(x.product.name, y.product.name))
  ELSE StableSort(results, LAMBDA x, y :
         IF sortOrder = "desc" THEN y.relevanceScore < x.relevanceScore
         ELSE x.relevanceScore < y.relevanceScore)

\* Step 6
SortResults(results, sortBy, sortOrder) ==
  IF sortBy = "price"
  THEN StableSort(results, LAMBDA x, y :
         IF sortOrder = "desc" THEN y.bestPrice < x.bestPrice ELSE x.bestPrice < y.bestPrice)
  ELSE IF sortBy = "distance"
  THEN StableSort(results, LAMBDA x, y :
         IF sortOrder = "desc" THEN SortDistance(y) < SortDistance(x)
         ELSE SortDistance(x) < SortDistance(y))
  ELSE IF sortBy = "name"
  THEN StableSort(results, LAMBDA x, y :
         IF sortOrder = "desc" THEN localeCompareLess(y.product.name, x.product.name)
         ELSE localeCompareLess(x.product.name, y.product.name))
  ELSE StableSort(results, LAMBDA x, y : y.relevanceScore < x.relevanceScore)

\* results.slice(offset, offset + limit)
slice(results, offset, end) ==
  SubSeq(results, offset + 1, IF end < Len(results) THEN end ELSE Len(results))

\* offset = (page - 1) * limit is a number; offset + limit is a sum only when
\* limit is a number
Paginate(results, page, limit) ==
  LET offset == Num((ToNumber(page) - 1) * ToNumber(limit))
  IN slice(results, offset.num, ToNumber(JsPlus(offset, limit)))

\* the validators trim query and category in place
Sanitized(b) == [b EXCEPT !.query = trim(@), !.category = trim(@)]

userLatOf(b) == JsOr(ParseFloat(b.lat), DefaultLat)
userLngOf(b) == JsOr(ParseFloat(b.lng), DefaultLng)
maxRadiusOf(b) ==
  JsMin(ParseFloat(IF b.radius.kind = "undefined" THEN Num(DefaultRadius) ELSE b.radius),
        MaxRadius)

\* the sorted result list, before pagination
SortedResults(b) ==
  LET nearbyStores == findNearbyStores(stores, userLatOf(b), userLngOf(b), maxRadiusOf(b))
  IN SortResults(UnsortedResults(b, nearbyStores), b.sortBy, b.sortOrder)

SearchResponse(body) ==
  IF ~ValidSearch(body) THEN [status |-> 400]
  ELSE
    LET b == Sanitized(body)
        results == SortedResults(b)
        page == IF b.page.kind = "undefined" THEN Num(1) ELSE b.page
        limit == IF b.limit.kind = "undefined" THEN Num(DefaultLimit) ELSE b.limit
        totalResults == Len(results)
    IN [status |-> 200,
        query |-> b.query,
        location |-> [lat |-> userLatOf(b), lng |-> userLngOf(b), radius |-> maxRadiusOf(b)],
        filters |-> [category |-> b.category, minPrice |-> b.minPrice,
                     maxPrice |-> b.maxPrice, retailer |-> b.retailer,
                     inStockOnly |-> b.inStockOnly # "false"],
        sorting |-> [sortBy |-> IF b.sortBy = "undefined" THEN "relevance" ELSE b.sortBy,
                     sortOrder |-> IF b.sortOrder = "undefined" THEN "asc" ELSE b.sortOrder],
        pagination |-> [page |-> page, limit |-> limit, totalResults |-> totalResults,
                        totalPages |-> (totalResults + ToNumber(limit) - 1) \div ToNumber(limit)],
        results |-> Paginate(results, page, limit)]

\* What the route leaves in the arrays it reads.  PRODUCTS.map builds new
\* objects ({ ...product, relevanceScore }) and the filters build new arrays.
productsAfterSearch(catalog, b) == catalog

\* findNearbyStores sorts in place, but the array that stores.filter(...)
\* returned, not its argument
storesAfterSearch_SortInPlace(storeList, b) ==
  StableSort(storeList, LAMBDA x, y :
    calculateDistance(userLatOf(b), userLngOf(b), x.lat, x.lng)
      < calculateDistance(userLatOf(b), userLngOf(b), y.lat, y.lng))

storesAfterSearch(storeList, b) == storeList

\* inventory.filter(...) builds productInventory; both sorts run on copies
\* ([...filteredInv])
inventoryAfterSearch(inv, b) == inv

\* The server answers the request.  A client that started at page 1 keeps the
\* pages it has received, in order.
Search ==
  /\ req # NoRequest /\ res = NoResponse
  /\ res' = SearchResponse(req)
  /\ IF ValidSearch(req)
     THEN /\ products' = productsAfterSearch(products, Sanitized(req))
          /\ stores' = storesAfterSearch(stores, Sanitized(req))
          /\ inventory' = inventoryAfterSearch(inventory, Sanitized(req))
     ELSE UNCHANGED <<products, stores, inventory>>
  /\ walk' = IF res'.status = 200 /\ ToNumber(res'.pagination.page) = Len(walk) + 1
             THEN Append(walk, res'.results) ELSE walk
  /\ UNCHANGED <<req, geoVars, queryVars, sqlVars, acctVars, sortChoice, shopVars>>

\* The client asks for the next page of the same search.
NextPage ==
  /\ res.status = 200
  /\ ToNumber(res.pagination.page) = Len(walk)
  /\ ToNumber(res.pagination.page) < res.pagination.totalPages
  /\ req' = [req EXCEPT !.page = Num(ToNumber(res.pagination.page) + 1)]
  /\ res' = NoResponse
  /\ UNCHANGED <<walk, products, stores, geoVars, queryVars, sqlVars, acctVars, dbVars>>

(***************************************************************************)
(* Search requests of the model.                                           *)
(***************************************************************************)
MaxQueryLen == 4
MaxSortChoice == 3
MaxTestLimit == 2
MaxStartPage == 2

BaseRequest ==
  [query |-> <<"a">>, lat |-> Num(BrooklynLat), lng |-> Num(BrooklynLng),
   radius |-> Undefined, category |-> <<>>, minPrice |-> Undefined,
   maxPrice |-> Undefined, sortBy |-> "undefined", sortOrder |-> "undefined",
   page |-> Undefined, limit |-> Undefined, retailer |-> "", inStockOnly |-> "undefined"]

TextRequests ==
  {[BaseRequest EXCEPT !.query = q, !.category = c] :
     q \in StringsUpTo(MaxQueryLen), c \in {<<>>, <<"a">>, <<"B", "A">>, <<" ">>}}

GeoRequests ==
  {[BaseRequest EXCEPT !.query = q, !.lat = la, !.lng = ln, !.radius = r, !.sortBy = sb] :
     q \in {<<>>, <<"a">>}, la \in CoordInputs, ln \in LngInputs,
     r \in {Undefined, Text, Num(0), Num(5), Num(10), Num(30), Num(100), Num(500), Num(600)},
     sb \in {"undefined", "distance"}}

FilterRequests ==
  {[BaseRequest EXCEPT !.query = q, !.minPrice = lo, !.maxPrice = hi, !.sortBy = sb,
                       !.sortOrder = so, !.page = pg, !.limit = lim,
                       !.retailer = rt, !.inStockOnly = st] :
     q \in {<<>>, <<"a">>},
     lo \in {Undefined, Num(0), Num(9), Num(18)},
     hi \in {Undefined, Num(9), Num(20)},
     sb \in {"undefined", "price", "distance", "name", "relevance"},
     so \in {"undefined", "desc"},
     pg \in {Undefined} \cup {Num(n) : n \in 1..MaxStartPage},
     lim \in {Undefined} \cup {Num(n) : n \in 1..MaxTestLimit},
     rt \in {"", "TARGET"},
     st \in {"undefined", "false"}}

InvalidRequests ==
  {[BaseRequest EXCEPT !.sortBy = "newest"], [BaseRequest EXCEPT !.page = Num(0)],
   [BaseRequest EXCEPT !.limit = Num(MaxLimit + 1)], [BaseRequest EXCEPT !.minPrice = Text],
   [BaseRequest EXCEPT !.maxPrice = Num(-1)], [BaseRequest EXCEPT !.sortOrder = "asc"],
   [BaseRequest EXCEPT !.retailer = "walmart", !.inStockOnly = "true"]}

\* numerals sent as JSON strings
StringRequests ==
  {[BaseRequest EXCEPT !.query = q, !.minPrice = lo, !.page = pg, !.limit = lim, !.sortBy = sb] :
     q \in {<<>>, <<"a">>},
     lo \in {Undefined, Str(<<"9">>), Str(<<"1", "8">>)},
     pg \in {Undefined, Str(<<"1">>), Str(<<"0">>)},
     lim \in {Str(<<"1">>), Str(<<"2">>), Str(<<"0", "2">>)},
     sb \in {"undefined", "price"}}

\* searches sorted each way; the price floor leaves the second product its
\* record at the store standing on the query point
SortRequests ==
  {[BaseRequest EXCEPT !.query = q, !.minPrice = lo, !.sortBy = sb, !.sortOrder = so] :
     q \in {<<>>, <<"b">>},
     lo \in {Undefined, Num(20)},
     sb \in {"undefined", "price", "distance", "name", "relevance"},
     so \in {"undefined", "asc", "desc"}}

SearchRequests ==
  TextRequests \cup GeoRequests \cup FilterRequests \cup StringRequests \cup SortRequests
    \cup InvalidRequests

\* the inventory after an order has taken the last unit of a record
SoldOut(inv, id) ==
  [i \in 1..Len(inv) |->
     IF inv[i].id = id THEN [inv[i] EXCEPT !.quantity = Num(0), !.inStock = FALSE] ELSE inv[i]]

\* the inventory after PUT /api/inventory/:id has set the price of a record
\* from a body whose price is no numeral
Repriced(inv, id) ==
  [i \in 1..Len(inv) |-> IF inv[i].id = id THEN [inv[i] EXCEPT !.price = NaN] ELSE inv[i]]

\* searches served on a repriced inventory; none sorts the results by price
RepricedRequests ==
  {[BaseRequest EXCEPT !.query = q, !.minPrice = lo, !.maxPrice = hi] :
     q \in {<<>>, <<"b">>},
     lo \in {Undefined, Num(0), Num(18)},
     hi \in {Undefined, Num(20), Num(30)}}

InitSearch ==
  /\ stores = SeedStores
  /\ products = PRODUCTS
  /\ QueryIdle
  /\ SqlSeeded
  /\ AcctIdle
  /\ \/ /\ inventory \in {SeedInventory, SoldOut(SeedInventory, 5)}
        /\ req \in SearchRequests
        /\ sortChoice = 1
     \/ /\ inventory = Repriced(SeedInventory, 10)
        /\ req \in RepricedRequests
        /\ sortChoice \in 1..MaxSortChoice
  /\ nearbyReq = [lat |-> Undefined, lng |-> Undefined, radius |-> Undefined]
  /\ nearbyRes = NoResponse
  /\ res = NoResponse
  /\ walk = <<>>
  /\ ShopIdle

NextSearch == Search \/ NextPage

SpecSearch == InitSearch /\ [][NextSearch]_vars

(***************************************************************************)
(* Orders (routes/orders), with rules.order.                               *)
(***************************************************************************)
MaxOrders == 2
MaxNotifications == 3
MaxDigits == 4
OrderBudget == 4

Users == {"u1", "u2"}

\* inventory.findIndex(i => i.id === id), 0 where there is none
IndexOfId(inv, id) ==
  IF \E i \in 1..Len(inv) : inv[i].id = id
  THEN CHOOSE i \in 1..Len(inv) : inv[i].id = id /\ \A j \in 1..(i - 1) : inv[j].id # id
  ELSE 0

\* rules.order
ValidOrder(body) ==
  /\ Len(body.items) >= 1
  /\ \A i \in 1..Len(body.items) :
       IsNumeric(body.items[i].quantity) /\ ToNumber(body.items[i].quantity) >= 1
  /\ body.fulfillment \in {"pickup", "delivery"}

\* !invItem.inStock || invItem.quantity < item.quantity
InsufficientStock(invItem, item) ==
  ~invItem.inStock \/ JsLess(invItem.quantity, item.quantity)

\* invItem.quantity -= item.quantity; if (invItem.quantity <= 0) inStock = false
Decremented(invItem, item) ==
  LET left == JsMinus(invItem.quantity, item.quantity)
  IN [invItem EXCEPT !.quantity = left,
                     !.inStock = IF left.num # NaN /\ left.num <= 0 THEN FALSE ELSE @]

\* the loop over the lines of an order: it stops at the first line it cannot
\* serve and keeps what it has taken for the lines before
RECURSIVE orderLoop(_, _, _)
orderLoop(inv, items, orderItems) ==
  IF items = <<>>
  THEN [status |-> 201, message |-> "Order created", inventory |-> inv, items |-> orderItems]
  ELSE
    LET item == Head(items)
        idx == IndexOfId(inv, item.inventoryId)
    IN IF idx = 0
       THEN [status |-> 400, message |-> "Inventory item not found",
             inventory |-> inv, items |-> orderItems]
       ELSE IF InsufficientStock(inv[idx], item)
       THEN [status |-> 400, message |-> "Insufficient stock",
             inventory |-> inv, items |-> orderItems]
       ELSE orderLoop([inv EXCEPT ![idx] = Decremented(inv[idx], item)],
                      Tail(items),
                      Append(orderItems,
                             [inventoryId |-> inv[idx].id, storeId |-> inv[idx].storeId,
                              price |-> inv[idx].price, quantity |-> item.quantity]))

Notification(userId, type, orderId) == [userId |-> userId, type |-> type, orderId |-> orderId]

\* every order placed earlier has seen another change of the inventory
Touched(p) == [i \in 1..Len(p) |-> [p[i] EXCEPT !.clean = FALSE]]

\* POST /api/orders
PlaceOrder(user, body) ==
  /\ budget > 0 /\ budget' = budget - 1
  /\ IF ~ValidOrder(body)
     THEN /\ shopRes' = [status |-> 400, message |-> "Validation failed", id |-> 0]
          /\ UNCHANGED <<inventory, orders, notifications, nextId, placed>>
     ELSE LET out == orderLoop(inventory, body.items, <<>>)
          IN /\ inventory' = out.inventory
             /\ IF out.status = 400
                THEN /\ shopRes' = [status |-> 400, message |-> out.message, id |-> 0]
                     /\ placed' = IF inventory' = inventory THEN placed ELSE Touched(placed)
                     /\ UNCHANGED <<orders, notifications, nextId>>
                ELSE /\ Len(orders) < MaxOrders
                     /\ Len(notifications) < MaxNotifications
                     /\ orders' = Append(orders,
                                    [id |-> nextId, userId |-> user, items |-> out.items,
                                     fulfillment |-> body.fulfillment, status |-> "pending",
                                     statusHistory |-> <<"pending">>])
                     /\ notifications' = Append(notifications,
                                           Notification(user, "order_created", nextId))
                     /\ nextId' = nextId + 1
                     /\ placed' = Append(Touched(placed),
                                        [before |-> inventory, clean |-> TRUE, restores |-> 0])
                     /\ shopRes' = [status |-> 201, message |-> "Order created", id |-> nextId]
  /\ UNCHANGED <<stores, geoVars, queryVars, sqlVars, acctVars, searchVars, sortChoice, statusCaller>>

IndexOfOrder(id) ==
  IF \E i \in 1..Len(orders) : orders[i].id = id
  THEN CHOOSE i \in 1..Len(orders) : orders[i].id = id
  ELSE 0

ValidStatuses ==
  {"pending", "confirmed", "preparing", "ready", "out_for_delivery", "delivered",
   "picked_up", "cancelled"}

\* PUT /api/orders/:id/status: the route runs authenticate and no authorize,
\* so the handler is reached whatever the role of the caller
UpdateOrderStatus(role, id, status) ==
  /\ budget > 0 /\ budget' = budget - 1
  /\ statusCaller' = role
  /\ LET k == IndexOfOrder(id)
     IN IF k = 0
        THEN /\ shopRes' = [status |-> 404, message |-> "Order not found", id |-> id]
             /\ UNCHANGED <<orders, notifications>>
        ELSE IF status \notin ValidStatuses
        THEN /\ shopRes' = [status |-> 400, message |-> "Invalid status", id |-> id]
             /\ UNCHANGED <<orders, notifications>>
        ELSE /\ Len(notifications) < MaxNotifications
             /\ orders' = [orders EXCEPT ![k].status = status,
                                         ![k].statusHistory = Append(@, status)]
             /\ notifications' = Append(notifications,
                                   Notification(orders[k].userId, "order_status", id))
             /\ shopRes' = [status |-> 200, message |-> "Order status updated", id |-> id]
  /\ UNCHANGED <<inventory, nextId, placed, stores, geoVars, queryVars, sqlVars, acctVars, searchVars, sortChoice>>

\* the loop that gives the lines of a cancelled order back
RECURSIVE restoreLoop(_, _)
restoreLoop(inv, items) ==
  IF items = <<>> THEN inv
  ELSE LET item == Head(items)
           idx == IndexOfId(inv, item.inventoryId)
       IN restoreLoop(IF idx = 0 THEN inv
                      ELSE [inv EXCEPT ![idx].quantity = JsPlus(@, item.quantity),
                                       ![idx].inStock = TRUE],
                      Tail(items))

\* POST /api/orders/:id/cancel
CancelOrder(user, id) ==
  /\ budget > 0 /\ budget' = budget - 1
  /\ LET k == IF IndexOfOrder(id) # 0 /\ orders[IndexOfOrder(id)].userId = user
              THEN IndexOfOrder(id) ELSE 0
     IN IF k = 0
        THEN /\ shopRes' = [status |-> 404, message |-> "Order not found", id |-> id]
             /\ UNCHANGED <<orders, inventory, placed>>
        ELSE IF orders[k].status \in {"delivered", "picked_up", "cancelled"}
        THEN /\ shopRes' = [status |-> 400, message |-> "Cannot cancel this order", id |-> id]
             /\ UNCHANGED <<orders, inventory, placed>>
        ELSE /\ orders' = [orders EXCEPT ![k].status = "cancelled",
                                         ![k].statusHistory = Append(@, "cancelled")]
             /\ inventory' = restoreLoop(inventory, orders[k].items)
             /\ \A i \in 1..Len(inventory') : Len(inventory'[i].quantity.str) <= MaxDigits
             /\ placed' = [Touched(placed) EXCEPT ![k].restores = @ + 1]
             /\ shopRes' = [status |-> 200, message |-> "Order cancelled", id |-> id]
  /\ UNCHANGED <<notifications, nextId, stores, geoVars, queryVars, sqlVars, acctVars, searchVars, sortChoice,
               statusCaller>>

\* lines a client orders
LineInputs ==
  [inventoryId : {1, 99},
   quantity : {Num(1), Num(2), Num(0), Str(<<"1">>), Str(<<"1", "0", "0">>)}]

OrderBodies ==
  {[items |-> items, fulfillment |-> "pickup"] :
     items \in {<<>>} \cup {<<a>> : a \in LineInputs}
               \cup {<<a, b>> : a \in LineInputs, b \in {x \in LineInputs : x.quantity.num # 0}}}
  \cup {[items |-> << [inventoryId |-> 1, quantity |-> Num(1)] >>, fulfillment |-> f] :
          f \in {"delivery", "mail"}}

NextOrders ==
  \/ \E user \in {"u1"}, body \in OrderBodies : PlaceOrder(user, body)
  \/ \E role \in {"customer", "store_owner"}, id \in 1..(MaxOrders + 1),
        status \in {"confirmed", "delivered", "pending", "lost"} :
       UpdateOrderStatus(role, id, status)
  \/ \E user \in Users, id \in 1..(MaxOrders + 1) : CancelOrder(user, id)

InitOrders ==
  /\ stores = SeedStores
  /\ products = PRODUCTS
  /\ QueryIdle
  /\ SqlSeeded
  /\ AcctIdle
  /\ inventory = SeedInventory
  /\ nearbyReq = [lat |-> Undefined, lng |-> Undefined, radius |-> Undefined]
  /\ nearbyRes = NoResponse
  /\ req = NoRequest /\ res = NoResponse /\ walk = <<>>
  /\ sortChoice = 1
  /\ orders = <<>> /\ notifications = <<>> /\ placed = <<>>
  /\ nextId = 1 /\ shopRes = NoShopResponse
  /\ budget = OrderBudget
  /\ statusCaller = "none"

SpecOrders == InitOrders /\ [][NextOrders]_vars

(***************************************************************************)
(* Inventory management (routes/inventory), with rules.inventoryItem.      *)
(***************************************************************************)
MaxInventory == 11

\* authorize('store_owner', 'admin')
Authorized(role) == role \in {"store_owner", "admin"}

Forbidden == [status |-> 403, message |-> "Access denied", id |-> 0]

\* v is truthy
Truthy(v) ==
  \/ v.kind = "number" /\ v.num # 0 /\ v.num # NaN
  \/ v.kind = "string" /\ v.str # <<>>

\* x > 0 of a number
Positive(n) == n # NaN /\ n > 0

\* a request of the shop routes that leaves the orders alone; the orders
\* placed before see another change when the inventory is not what it was
\* saved: the records the handler hands to persist.inventory
ShopStepSaving(inv, response, saved) ==
  /\ budget > 0 /\ budget' = budget - 1
  /\ inventory' = inv
  /\ shopRes' = response
  /\ placed' = IF inv = inventory THEN placed ELSE Touched(placed)
  /\ sqlInventory' = persistInventory(sqlInventory, saved)
  /\ UNCHANGED <<orders, notifications, stores, geoVars, queryVars, searchVars, sortChoice,
               statusCaller, sqlOrders, sqlUsers, sqlSubscriptions,
               acctVars>>

ShopStep(inv, response) == ShopStepSaving(inv, response, <<>>)

\* rules.inventoryItem
ValidInventoryItem(body) ==
  /\ body.productName.kind = "string" /\ trim(body.productName.str) # <<>>
  /\ IsNumeric(body.price) /\ ToNumber(body.price) >= 0
  /\ IsNumeric(body.quantity) /\ ToNumber(body.quantity) >= 0

\* POST /api/inventory
AddInventory(role, body) ==
  IF ~Authorized(role) THEN ShopStep(inventory, Forbidden) /\ UNCHANGED nextId
  ELSE IF ~ValidInventoryItem(body)
  THEN /\ ShopStep(inventory, [status |-> 400, message |-> "Validation failed", id |-> 0])
       /\ UNCHANGED nextId
  ELSE IF body.storeId = ""
  THEN /\ ShopStep(inventory, [status |-> 400, message |-> "storeId required", id |-> 0])
       /\ UNCHANGED nextId
  ELSE LET item == [id |-> 100 + nextId, storeId |-> body.storeId,
                    retailer |-> "independent", productSku |-> "CUSTOM",
                    productName |-> trim(body.productName.str),
                    price |-> ParseFloat(body.price),
                    quantity |-> Num(ParseInt(body.quantity)),
                    inStock |-> Positive(ParseInt(body.quantity))]
       IN /\ Len(inventory) < MaxInventory
          /\ ShopStepSaving(Append(inventory, item),
                            [status |-> 201, message |-> "Item added to inventory",
                             id |-> 100 + nextId],
                            <<item>>)
          /\ nextId' = nextId + 1

\* the assignments of PUT /api/inventory/:id
updatedItem(item, body) ==
  LET priced == IF body.price.kind # "undefined"
                THEN [item EXCEPT !.price = ParseFloat(body.price)] ELSE item
      counted == IF body.quantity.kind # "undefined"
                 THEN [priced EXCEPT !.quantity = Num(ParseInt(body.quantity)),
                                     !.inStock = Positive(ParseInt(body.quantity))]
                 ELSE priced
  IN IF Truthy(body.productName)
     THEN [counted EXCEPT !.productName = body.productName.str] ELSE counted

\* PUT /api/inventory/:id
UpdateInventory(role, id, body) ==
  /\ UNCHANGED nextId
  /\ IF ~Authorized(role) THEN ShopStep(inventory, Forbidden)
     ELSE LET idx == IndexOfId(inventory, id)
          IN IF idx = 0
             THEN ShopStep(inventory,
                    [status |-> 404, message |-> "Inventory item not found", id |-> id])
             ELSE ShopStep([inventory EXCEPT ![idx] = updatedItem(@, body)],
                    [status |-> 200, message |-> "Item updated", id |-> id])

\* inventory.splice(idx, 1)
splice(inv, idx) == SubSeq(inv, 1, idx - 1) \o SubSeq(inv, idx + 1, Len(inv))

\* DELETE /api/inventory/:id
DeleteInventory(role, id) ==
  /\ UNCHANGED nextId
  /\ IF ~Authorized(role) THEN ShopStep(inventory, Forbidden)
     ELSE LET idx == IndexOfId(inventory, id)
          IN IF idx = 0
             THEN ShopStep(inventory,
                    [status |-> 404, message |-> "Inventory item not found", id |-> id])
             ELSE ShopStep(splice(inventory, idx),
                    [status |-> 200, message |-> "Item removed", id |-> id])

\* inventory.find(i => i.storeId === storeId && i.productName === name)
IndexOfName(inv, storeId, name) ==
  IF \E i \in 1..Len(inv) : inv[i].storeId = storeId /\ inv[i].productName = name
  THEN CHOOSE i \in 1..Len(inv) :
         /\ inv[i].storeId = storeId /\ inv[i].productName = name
         /\ \A j \in 1..(i - 1) : ~(inv[j].storeId = storeId /\ inv[j].productName = name)
  ELSE 0

\* the loop of POST /api/inventory/batch; next is the next identifier
RECURSIVE batchLoop(_, _, _, _, _)
batchLoop(inv, next, storeId, items, added) ==
  IF items = <<>> THEN [inventory |-> inv, nextId |-> next, added |-> added]
  ELSE
    LET item == Head(items)
        idx == IndexOfName(inv, storeId, item.productName.str)
    IN IF ~Truthy(item.productName) \/ item.price.kind = "undefined"
       THEN batchLoop(inv, next, storeId, Tail(items), added)
       ELSE IF idx # 0
       THEN LET quantity == ParseInt(IF Truthy(item.quantity) THEN item.quantity
                                     ELSE inv[idx].quantity)
            IN batchLoop([inv EXCEPT ![idx].price = ParseFloat(item.price),
                                     ![idx].quantity = Num(quantity),
                                     ![idx].inStock = Positive(quantity)],
                         next, storeId, Tail(items), added)
       ELSE LET quantity == ParseInt(IF Truthy(item.quantity) THEN item.quantity ELSE Num(0))
                newItem == [id |-> 100 + next, storeId |-> storeId,
                            retailer |-> "independent", productSku |-> "CUSTOM",
                            productName |-> item.productName.str,
                            price |-> ParseFloat(item.price),
                            quantity |-> Num(quantity),
                            inStock |-> Positive(quantity)]
            IN batchLoop(Append(inv, newItem), next + 1, storeId, Tail(items),
                         Append(added, newItem))

\* POST /api/inventory/batch
BatchInventory(role, body) ==
  IF ~Authorized(role) THEN ShopStep(inventory, Forbidden) /\ UNCHANGED nextId
  ELSE IF body.storeId = "" \/ body.items = <<>>
  THEN /\ ShopStep(inventory,
            [status |-> 400, message |-> "storeId and items[] required", id |-> 0])
       /\ UNCHANGED nextId
  ELSE LET out == batchLoop(inventory, nextId, body.storeId, body.items, <<>>)
       IN /\ Len(out.inventory) <= MaxInventory
          /\ ShopStepSaving(out.inventory,
                            [status |-> 200, message |-> "Batch processed", id |-> 0],
                            out.added)
          /\ nextId' = out.nextId

(***************************************************************************)
(* Inventory through the store owner dashboard (routes/dashboard).         *)
(***************************************************************************)
\* POST /api/dashboard/inventory/:storeId/add
DashboardAdd(role, storeId, body) ==
  IF ~Authorized(role) THEN ShopStep(inventory, Forbidden) /\ UNCHANGED nextId
  ELSE IF ~Truthy(body.productName) \/ body.price.kind = "undefined"
  THEN /\ ShopStep(inventory,
            [status |-> 400, message |-> "productName and price required", id |-> 0])
       /\ UNCHANGED nextId
  ELSE /\ Len(inventory) < MaxInventory
       /\ ShopStep(Append(inventory,
                     [id |-> 100 + nextId, storeId |-> storeId,
                      retailer |-> "undefined", productSku |-> "CUST",
                      productName |-> body.productName.str,
                      price |-> ParseFloat(body.price),
                      quantity |-> Num(JsOr(ParseInt(body.quantity), 0)),
                      inStock |-> Positive(JsOr(ParseInt(body.quantity), 0))]),
                   [status |-> 201, message |-> "Product added", id |-> 100 + nextId])
       /\ nextId' = nextId + 1

\* inventory.find(i => i.id === itemId && i.storeId === storeId)
IndexInStore(inv, storeId, itemId) ==
  IF IndexOfId(inv, itemId) # 0 /\ inv[IndexOfId(inv, itemId)].storeId = storeId
  THEN IndexOfId(inv, itemId) ELSE 0

\* the assignments of PUT /api/dashboard/inventory/:storeId/:itemId; inStock
\* is written last, as the body gives it
dashboardItem(item, body) ==
  LET named == IF body.productName.kind # "undefined"
               THEN [item EXCEPT !.productName = body.productName.str] ELSE item
      priced == IF body.price.kind # "undefined"
                THEN [named EXCEPT !.price = ParseFloat(body.price)] ELSE named
      counted == IF body.quantity.kind # "undefined"
                 THEN [priced EXCEPT !.quantity = Num(ParseInt(body.quantity)),
                                     !.inStock = Positive(ParseInt(body.quantity))]
                 ELSE priced
  IN IF body.inStock # "undefined"
     THEN [counted EXCEPT !.inStock = (body.inStock = "true")] ELSE counted

\* PUT /api/dashboard/inventory/:storeId/:itemId
DashboardUpdate(role, storeId, itemId, body) ==
  /\ UNCHANGED nextId
  /\ IF ~Authorized(role) THEN ShopStep(inventory, Forbidden)
     ELSE LET idx == IndexInStore(inventory, storeId, itemId)
          IN IF idx = 0
             THEN ShopStep(inventory,
                    [status |-> 404, message |-> "Item not found", id |-> itemId])
             ELSE ShopStep([inventory EXCEPT ![idx] = dashboardItem(@, body)],
                    [status |-> 200, message |-> "Product updated", id |-> itemId])

\* DELETE /api/dashboard/inventory/:storeId/:itemId
DashboardDelete(role, storeId, itemId) ==
  /\ UNCHANGED nextId
  /\ IF ~Authorized(role) THEN ShopStep(inventory, Forbidden)
     ELSE LET idx == IndexInStore(inventory, storeId, itemId)
          IN IF idx = 0
             THEN ShopStep(inventory,
                    [status |-> 404, message |-> "Item not found", id |-> itemId])
             ELSE ShopStep(splice(inventory, idx),
                    [status |-> 200, message |-> "Product removed", id |-> itemId])

\* the loop of POST /api/dashboard/inventory/:storeId/bulk-update
RECURSIVE bulkLoop(_, _, _)
bulkLoop(inv, storeId, updates) ==
  IF updates = <<>> THEN inv
  ELSE LET u == Head(updates)
           idx == IndexInStore(inv, storeId, u.itemId)
           priced == IF u.price.kind # "undefined"
                     THEN [inv[idx] EXCEPT !.price = ParseFloat(u.price)] ELSE inv[idx]
           counted == IF u.quantity.kind # "undefined"
                      THEN [priced EXCEPT !.quantity = Num(ParseInt(u.quantity)),
                                          !.inStock = Positive(ParseInt(u.quantity))]
                      ELSE priced
       IN bulkLoop(IF idx = 0 THEN inv ELSE [inv EXCEPT ![idx] = counted],
                   storeId, Tail(updates))

\* POST /api/dashboard/inventory/:storeId/bulk-update
DashboardBulkUpdate(role, storeId, body) ==
  /\ UNCHANGED nextId
  /\ IF ~Authorized(role) THEN ShopStep(inventory, Forbidden)
     ELSE IF ~body.isArray
     THEN ShopStep(inventory, [status |-> 400, message |-> "updates array required", id |-> 0])
     ELSE ShopStep(bulkLoop(inventory, storeId, body.updates),
                   [status |-> 200, message |-> "items updated", id |-> 0])

(***************************************************************************)
(* Requests of the inventory and dashboard routes in the model.            *)
(***************************************************************************)
InventoryBudget == 2

Roles == {"store_owner", "customer"}
QuantityInputs == {Undefined, Num(0), Num(-5), Text, Str(<<"7">>)}
PriceInputs == {Undefined, Num(5), Text}
NameInputs == {Undefined, Str(<<"b">>)}
ItemIds == {1, 99, 101}
StoreIds == {"HOM_NY01", "LOW_NY01"}

ItemBodies == [productName : NameInputs, price : PriceInputs, quantity : QuantityInputs]

\* what a role sends: a customer is turned away whatever the body
BodiesOf(role, bodies) == IF Authorized(role) THEN bodies ELSE {CHOOSE b \in bodies : TRUE}

AddBodies ==
  {[storeId |-> st, productName |-> n, price |-> pr, quantity |-> q] :
     st \in {"HOM_NY01", ""}, n \in {Str(<<"b">>), Str(<<" ">>)},
     pr \in {Num(5), Text}, q \in {Num(0), Num(3), Num(-5), Str(<<"7">>), Text}}

BatchBodies ==
  {[storeId |-> st, items |-> items] :
     st \in {"HOM_NY01", ""},
     items \in {<<>>} \cup {<<a>> : a \in ItemBodies}
               \cup {<<a, [productName |-> Str(<<"A", "b">>), price |-> Num(5),
                           quantity |-> Undefined]>> :
                       a \in {x \in ItemBodies : x.quantity.kind = "number"}}}

DashboardBodies ==
  {[productName |-> b.productName, price |-> b.price, quantity |-> b.quantity,
    inStock |-> st] : b \in ItemBodies, st \in {"undefined", "true", "false"}}

BulkBodies ==
  {[isArray |-> FALSE, updates |-> <<>>]}
  \cup {[isArray |-> TRUE, updates |-> ups] :
          ups \in {<<>>}
                  \cup {<<[itemId |-> id, price |-> pr, quantity |-> q]>> :
                          id \in ItemIds, pr \in PriceInputs, q \in QuantityInputs}
                  \cup {<<[itemId |-> 1, price |-> Undefined, quantity |-> q],
                          [itemId |-> 1, price |-> Num(5), quantity |-> Undefined]>> :
                          q \in QuantityInputs}}

NextInventory ==
  \/ \E role \in Roles : \E body \in BodiesOf(role, AddBodies) : AddInventory(role, body)
  \/ \E role \in Roles, id \in ItemIds : \E body \in BodiesOf(role, ItemBodies) :
       UpdateInventory(role, id, body)
  \/ \E role \in Roles, id \in ItemIds : DeleteInventory(role, id)
  \/ \E role \in Roles : \E body \in BodiesOf(role, BatchBodies) : BatchInventory(role, body)
  \/ \E role \in Roles, storeId \in StoreIds : \E body \in BodiesOf(role, ItemBodies) :
       DashboardAdd(role, storeId, body)
  \/ \E role \in Roles, storeId \in StoreIds, id \in ItemIds :
       \E body \in BodiesOf(role, DashboardBodies) : DashboardUpdate(role, storeId, id, body)
  \/ \E role \in Roles, storeId \in StoreIds, id \in ItemIds :
       DashboardDelete(role, storeId, id)
  \/ \E role \in Roles, storeId \in StoreIds : \E body \in BodiesOf(role, BulkBodies) :
       DashboardBulkUpdate(role, storeId, body)

\* the shop as a whole: orders, inventory routes and dashboard routes
InitShop ==
  /\ stores = SeedStores
  /\ products = PRODUCTS
  /\ QueryIdle
  /\ SqlSeeded
  /\ AcctIdle
  /\ inventory = SeedInventory
  /\ nearbyReq = [lat |-> Undefined, lng |-> Undefined, radius |-> Undefined]
  /\ nearbyRes = NoResponse
  /\ req = NoRequest /\ res = NoResponse /\ walk = <<>>
  /\ sortChoice = 1
  /\ orders = <<>> /\ notifications = <<>> /\ placed = <<>>
  /\ nextId = 1 /\ shopRes = NoShopResponse
  /\ budget = InventoryBudget
  /\ statusCaller = "none"

NextShop == NextOrders \/ NextInventory

SpecShop == InitShop /\ [][NextShop]_vars

(***************************************************************************)
(* Restart (models/database init on a database file that holds the         *)
(* tables).  The process ends with the tables written to the file          *)
(* (saveToDisk on SIGINT/SIGTERM and every ten seconds); the new process   *)
(* finds the inventory table filled and loads the arrays from the tables.  *)
(***************************************************************************)
loadAll ==
  [inventory |-> loadTable(sqlInventory), orders |-> sqlOrders,
   users |-> sqlUsers, subscriptions |-> sqlSubscriptions]

\* no modelled route writes a notification to its table
Restart ==
  /\ inventory' = loadAll.inventory
  /\ orders' = loadAll.orders
  /\ notifications' = <<>>
  /\ placed' = SubSeq(placed, 1, Len(loadAll.orders))
  /\ shopRes' = NoShopResponse
  /\ UNCHANGED <<nextId, budget, statusCaller, stores, geoVars, queryVars, sqlVars, acctVars,
                 searchVars, sortChoice>>

NextRestart == NextShop \/ Restart

SpecRestart == InitShop /\ [][NextRestart]_vars

(***************************************************************************)
(* Cold start (api/index, models/database init, db/sqlite init).  Each     *)
(* request the serverless handler is given runs up to its first await in   *)
(* one step; what follows an await is a step of its own, so the requests   *)
(* of one instance interleave at the awaits.                               *)
(***************************************************************************)
\* rows a database file holds from earlier runs
StoredUsers == << [id |-> "u1", role |-> "customer", claimedStores |-> <<>>],
                  [id |-> "u2", role |-> "store_owner", claimedStores |-> <<>>] >>
StoredOrder ==
  [id |-> 1, userId |-> "u1",
   items |-> << [inventoryId |-> 1, storeId |-> "HOM_NY01", price |-> 10,
                 quantity |-> Num(1)] >>,
   fulfillment |-> "pickup", status |-> "pending", statusHistory |-> <<"pending">>]
StoredSubscription ==
  [id |-> 1, storeId |-> "HOM_NY01", userId |-> "u2", planId |-> "starter",
   status |-> "active", stripeSubscriptionId |-> "none", stripeCustomerId |-> "none",
   currentPeriodEnd |-> 30, cancelsAt |-> 0]

Tables(inv, ord, usr, sub) ==
  [exists |-> TRUE, inventory |-> inv, orders |-> ord, users |-> usr, subscriptions |-> sub]

DbFiles ==
  {NoFile} \cup
  {Tables(inv, ord, usr, sub) :
     inv \in {<<>>, persistInventory(<<>>, SeedInventory)},
     ord \in {<<>>, <<StoredOrder>>},
     usr \in {<<>>, SubSeq(StoredUsers, 1, 1), StoredUsers},
     sub \in {<<>>, <<StoredSubscription>>}}

\* estimateInventorySize
estimateInventorySize ==
  (Cardinality({<<p, k>> \in (1..Len(PRODUCTS)) \X (1..Len(SeedStores)) :
                  SeedStores[k].retailer \in PRODUCTS[p].retailers}) * 85) \div 100

\* module.exports of api/index up to its await: db.init() is called unless
\* the handler's flag is set, init returns at once when _initialized is set
\* and calls sqlite.init(), which returns at once when initialized is set
\* and awaits initSqlJs() otherwise
HandleRequest(p) ==
  /\ initPc[p] = "idle"
  \* what follows a settled await runs before the next request is taken up
  /\ \A q \in InitCalls : initPc[q] \notin {"ready", "loaded"}
  /\ initPc' = [initPc EXCEPT ![p] =
                  IF handlerInitialized THEN "done"
                  ELSE IF dbInitialized THEN "loaded"
                  ELSE IF initialized THEN "ready"
                  ELSE "sqlite"]
  /\ UNCHANGED <<dbFile, initialized, dbInitialized, handlerInitialized, users, planVars,
                 acctRes, sqlVars, stores, dbVars, geoVars, searchVars, queryVars>>

\* sqlite.init after await initSqlJs(): the database is read from the file,
\* or a new one is made, and the flag is set
SqliteInit(p) ==
  /\ initPc[p] = "sqlite"
  /\ sqlInventory' = IF dbFile.exists THEN dbFile.inventory ELSE <<>>
  /\ sqlOrders' = IF dbFile.exists THEN dbFile.orders ELSE <<>>
  /\ sqlUsers' = IF dbFile.exists THEN dbFile.users ELSE <<>>
  /\ sqlSubscriptions' = IF dbFile.exists THEN dbFile.subscriptions ELSE <<>>
  /\ initialized' = TRUE
  /\ initPc' = [initPc EXCEPT ![p] = "ready"]
  /\ UNCHANGED <<dbFile, dbInitialized, handlerInitialized, users, planVars, acctRes,
                 stores, dbVars, geoVars, searchVars, queryVars>>

\* init after await sqlite.init(): the stores are built, the inventory is
\* seeded and bulk-inserted or loaded, the other arrays are loaded, and
\* only then is _initialized set
DatabaseInit(p) ==
  /\ initPc[p] = "ready"
  /\ stores' = SeedStores
  /\ IF 2 * Len(sqlInventory) < estimateInventorySize
     THEN /\ inventory' = SeedInventory
          /\ sqlInventory' = persistInventory(sqlInventory, SeedInventory)
     ELSE /\ inventory' = inventory \o loadAll.inventory
          /\ UNCHANGED sqlInventory
  /\ users' = users \o loadAll.users
  /\ orders' = orders \o loadAll.orders
  /\ subscriptions' = subscriptions \o loadAll.subscriptions
  /\ dbInitialized' = TRUE
  /\ initPc' = [initPc EXCEPT ![p] = "loaded"]
  /\ UNCHANGED <<dbFile, initialized, handlerInitialized, consumerSubscriptions, clock,
                 acctRes, sqlOrders, sqlUsers, sqlSubscriptions, sortChoice, notifications,
                 nextId, shopRes, placed, budget, statusCaller, geoVars, searchVars,
                 queryVars>>

\* the handler after await db.init(): its flag is set and the request is
\* passed to the app
Serve(p) ==
  /\ initPc[p] = "loaded"
  /\ handlerInitialized' = TRUE
  /\ initPc' = [initPc EXCEPT ![p] = "done"]
  /\ UNCHANGED <<dbFile, initialized, dbInitialized, users, planVars, acctRes, sqlVars,
                 stores, dbVars, geoVars, searchVars, queryVars>>

\* the timer of startAutoSave: saveToDisk while initialized is set
AutoSave ==
  /\ dbInitialized /\ initialized
  /\ dbFile' = Tables(sqlInventory, sqlOrders, sqlUsers, sqlSubscriptions)
  /\ dbFile' # dbFile
  /\ UNCHANGED <<initPc, initialized, dbInitialized, handlerInitialized, users, planVars,
                 acctRes, sqlVars, stores, dbVars, geoVars, searchVars, queryVars>>

NextColdStart ==
  \/ \E p \in InitCalls : HandleRequest(p)
  \/ \E p \in InitCalls : SqliteInit(p)
  \/ \E p \in InitCalls : DatabaseInit(p)
  \/ \E p \in InitCalls : Serve(p)
  \/ AutoSave

\* a new instance: the modules are loaded, the arrays are empty, no
\* database is open, and the file is what an earlier instance left
InitColdStart ==
  /\ stores = <<>> /\ products = PRODUCTS /\ inventory = <<>>
  /\ QueryIdle
  /\ nearbyReq = [lat |-> Undefined, lng |-> Undefined, radius |-> Undefined]
  /\ nearbyRes = NoResponse
  /\ req = NoRequest /\ res = NoResponse /\ walk = <<>>
  /\ sortChoice = 1
  /\ ShopIdle
  /\ sqlInventory = <<>> /\ sqlOrders = <<>> /\ sqlUsers = <<>> /\ sqlSubscriptions = <<>>
  /\ dbFile \in DbFiles
  /\ users = <<>> /\ subscriptions = <<>> /\ consumerSubscriptions = <<>>
  /\ clock = 0 /\ acctRes = NoAcctResponse
  /\ initPc = [p \in InitCalls |-> "idle"]
  /\ initialized = FALSE /\ dbInitialized = FALSE /\ handlerInitialized = FALSE

SpecColdStart == InitColdStart /\ [][NextColdStart]_vars

(***************************************************************************)
(* Subscriptions (routes/monetization-b2b, routes/monetization-consumer,   *)
(* routes/payments).  Dates are days; a date a record does not have is     *)
(* NoDate.  The calls to Stripe either succeed or throw.                   *)
(***************************************************************************)
BillingPeriod == 30
HalfPeriod == 15
MaxClock == 30
PlanBudget == 3
NoDate == -1

\* Object.keys(STORE_PLANS)
STORE_PLANS == {"free", "starter", "professional", "enterprise"}
\* Object.keys(CONSUMER_PLANS)
CONSUMER_PLANS == {"free", "radar_plus", "radar_pro"}
\* plan.features.marketInsights
marketInsights(planId) == planId \in {"professional", "enterprise"}
\* stripeConfig.b2bPrices[planId]?.monthly
b2bPrice(planId) == planId \in {"starter", "professional", "enterprise"}

AcctResponse(status, message) ==
  [status |-> status, message |-> message, storeId |-> "", plan |-> ""]

\* list.find(s => s.<key> === owner && s.status === 'active'), as an index,
\* 0 where there is none
FindActive(list, key, owner) ==
  IF \E i \in 1..Len(list) : list[i][key] = owner /\ list[i].status = "active"
  THEN CHOOSE i \in 1..Len(list) :
         /\ list[i][key] = owner /\ list[i].status = "active"
         /\ \A j \in 1..(i - 1) : ~(list[j][key] = owner /\ list[j].status = "active")
  ELSE 0

\* list.find(s => s.stripeSubscriptionId === id)
FindStripe(list, id) ==
  IF \E i \in 1..Len(list) : list[i].stripeSubscriptionId = id
  THEN CHOOSE i \in 1..Len(list) :
         /\ list[i].stripeSubscriptionId = id
         /\ \A j \in 1..(i - 1) : list[j].stripeSubscriptionId # id
  ELSE 0

\* list.find(s => s.stripeCustomerId === customer && s.status === 'active')
FindCustomer(list, customer) ==
  IF \E i \in 1..Len(list) : list[i].stripeCustomerId = customer /\ list[i].status = "active"
  THEN CHOOSE i \in 1..Len(list) :
         /\ list[i].stripeCustomerId = customer /\ list[i].status = "active"
         /\ \A j \in 1..(i - 1) :
              ~(list[j].stripeCustomerId = customer /\ list[j].status = "active")
  ELSE 0

\* the record at index k with its status set, the list itself where k is 0
WithStatus(list, k, status) ==
  IF k = 0 THEN list ELSE [list EXCEPT ![k].status = status]

\* const sub = subscriptions.find(active); plan = sub ? sub.planId : free
planOf(list, key, owner) ==
  IF FindActive(list, key, owner) = 0 THEN "free"
  ELSE list[FindActive(list, key, owner)].planId

\* a request of the subscription routes
PlanStep(subs, cons, notes, next, response) ==
  /\ budget > 0 /\ budget' = budget - 1
  /\ subscriptions' = subs
  /\ consumerSubscriptions' = cons
  /\ notifications' = notes
  /\ nextId' = next
  /\ acctRes' = response
  /\ UNCHANGED <<clock, users, initVars, stores, inventory, sortChoice, orders, shopRes,
                 placed, statusCaller, geoVars, searchVars, queryVars, sqlVars>>

PlanReply(response) ==
  PlanStep(subscriptions, consumerSubscriptions, notifications, nextId, response)

\* POST /api/monetization/b2b/subscribe
Subscribe(role, user, storeId, planId) ==
  IF ~Authorized(role)
  THEN PlanReply(AcctResponse(403, "Access denied"))
  ELSE IF storeId = "" \/ planId = ""
  THEN PlanReply(AcctResponse(400, "storeId and planId required"))
  ELSE IF planId \notin STORE_PLANS
  THEN PlanReply(AcctResponse(400, "Invalid plan"))
  ELSE PlanStep(Append(WithStatus(subscriptions,
                                  FindActive(subscriptions, "storeId", storeId), "cancelled"),
                       [id |-> nextId, storeId |-> storeId, userId |-> user,
                        planId |-> planId, status |-> "active",
                        stripeSubscriptionId |-> "none", stripeCustomerId |-> "none",
                        currentPeriodEnd |-> clock + BillingPeriod, cancelsAt |-> NoDate]),
                consumerSubscriptions,
                Append(notifications, Notification(user, "subscription", 0)),
                nextId + 1,
                [status |-> 201, message |-> "Subscription created",
                 storeId |-> storeId, plan |-> planId])

\* POST /api/monetization/b2b/cancel
CancelSubscription(role, storeId) ==
  LET k == FindActive(subscriptions, "storeId", storeId)
  IN IF ~Authorized(role)
     THEN PlanReply(AcctResponse(403, "Access denied"))
     ELSE IF k = 0
     THEN PlanReply(AcctResponse(404, "No active subscription found"))
     ELSE PlanStep([subscriptions EXCEPT ![k].status = "cancelling",
                                         ![k].cancelsAt = subscriptions[k].currentPeriodEnd],
                   consumerSubscriptions, notifications, nextId,
                   [status |-> 200, message |-> "Subscription will cancel",
                    storeId |-> storeId, plan |-> subscriptions[k].planId])

\* GET /api/monetization/b2b/insights/:storeId; promote and billing look the
\* plan up the same way
Insights(role, storeId) ==
  LET plan == planOf(subscriptions, "storeId", storeId)
  IN IF ~Authorized(role)
     THEN PlanReply(AcctResponse(403, "Access denied"))
     ELSE IF ~marketInsights(plan)
     THEN PlanReply([status |-> 403, message |-> "Market insights require Professional",
                     storeId |-> storeId, plan |-> plan])
     ELSE PlanReply([status |-> 200, message |-> "insights",
                     storeId |-> storeId, plan |-> plan])

\* POST /api/monetization/consumer/subscribe
ConsumerSubscribe(user, planId) ==
  IF planId = "" \/ planId \notin CONSUMER_PLANS
  THEN PlanReply(AcctResponse(400, "Invalid plan"))
  ELSE PlanStep(subscriptions,
                Append(WithStatus(consumerSubscriptions,
                                  FindActive(consumerSubscriptions, "userId", user),
                                  "cancelled"),
                       [id |-> nextId, storeId |-> "", userId |-> user,
                        planId |-> planId, status |-> "active",
                        stripeSubscriptionId |-> "none", stripeCustomerId |-> "none",
                        currentPeriodEnd |-> clock + BillingPeriod, cancelsAt |-> NoDate]),
                Append(notifications, Notification(user, "subscription", 0)),
                nextId + 1,
                [status |-> 201, message |-> "Subscription created",
                 storeId |-> user, plan |-> planId])

\* POST /api/monetization/consumer/cancel; a membership made by the webhook
\* has no currentPeriodEnd, and split() of undefined throws once the status
\* has been set
ConsumerCancel(user) ==
  LET k == FindActive(consumerSubscriptions, "userId", user)
  IN IF k = 0 \/ consumerSubscriptions[k].planId = "free"
     THEN PlanReply(AcctResponse(400, "No paid membership to cancel"))
     ELSE PlanStep(subscriptions,
                   [consumerSubscriptions EXCEPT
                      ![k].status = "cancelling",
                      ![k].cancelsAt = consumerSubscriptions[k].currentPeriodEnd],
                   notifications, nextId,
                   IF consumerSubscriptions[k].currentPeriodEnd = NoDate
                   THEN AcctResponse(500, "Internal server error")
                   ELSE [status |-> 200, message |-> "membership will end",
                         storeId |-> user, plan |-> consumerSubscriptions[k].planId])

\* GET /api/monetization/consumer/membership; calculate-fees looks the plan
\* up the same way
Membership(user) ==
  PlanReply([status |-> 200, message |-> "membership", storeId |-> user,
             plan |-> planOf(consumerSubscriptions, "userId", user)])

\* POST /api/payments/b2b/change-plan; threw: stripeService.changePlan throws
ChangePlan(role, storeId, newPlanId, threw) ==
  LET k == FindActive(subscriptions, "storeId", storeId)
  IN IF ~Authorized(role)
     THEN PlanReply(AcctResponse(403, "Access denied"))
     ELSE IF storeId = "" \/ newPlanId = ""
     THEN PlanReply(AcctResponse(400, "storeId and newPlanId required"))
     ELSE IF k = 0 \/ subscriptions[k].stripeSubscriptionId = "none"
     THEN PlanReply(AcctResponse(400, "No active Stripe subscription found"))
     ELSE IF ~b2bPrice(newPlanId)
     THEN PlanReply(AcctResponse(400, "Invalid plan"))
     ELSE IF threw
     THEN PlanReply(AcctResponse(500, "Plan change failed"))
     ELSE PlanStep([subscriptions EXCEPT ![k].planId = newPlanId],
                   consumerSubscriptions, notifications, nextId,
                   [status |-> 200, message |-> "Plan changed",
                    storeId |-> storeId, plan |-> newPlanId])

\* POST /api/payments/b2b/cancel; threw: stripeService.cancelSubscription
\* throws; periodEnd: current_period_end of what Stripe returns
PaymentsCancel(role, storeId, immediate, threw, periodEnd) ==
  LET k == FindActive(subscriptions, "storeId", storeId)
  IN IF ~Authorized(role)
     THEN PlanReply(AcctResponse(403, "Access denied"))
     ELSE IF k = 0 \/ subscriptions[k].stripeSubscriptionId = "none"
     THEN PlanReply(AcctResponse(400, "No active Stripe subscription found"))
     ELSE IF threw
     THEN PlanReply(AcctResponse(500, "Cancellation failed"))
     ELSE PlanStep([subscriptions EXCEPT
                      ![k].status = IF immediate THEN "cancelled" ELSE "cancelling",
                      ![k].cancelsAt = IF immediate THEN clock ELSE periodEnd],
                   consumerSubscriptions, notifications, nextId,
                   [status |-> 200, message |-> "Subscription cancelled",
                    storeId |-> storeId, plan |-> subscriptions[k].planId])

\* sub.status === 'active' ? 'active' : sub.cancel_at_period_end ? 'cancelling' : sub.status
updatedStatus(sub) ==
  IF sub.status = "active" THEN "active"
  ELSE IF sub.cancel_at_period_end THEN "cancelling"
  ELSE sub.status

\* POST /api/payments/webhook
Webhook(event) ==
  IF ~event.signed
  THEN PlanReply(AcctResponse(400, "Webhook verification failed"))
  ELSE IF event.type = "checkout.session.completed" /\ event.metaType = "b2b"
  THEN PlanStep(Append(WithStatus(subscriptions,
                                  FindActive(subscriptions, "storeId", event.storeId),
                                  "replaced"),
                       [id |-> nextId, storeId |-> event.storeId, userId |-> event.userId,
                        planId |-> event.planId, status |-> "active",
                        stripeSubscriptionId |-> event.subscription,
                        stripeCustomerId |-> event.customer,
                        currentPeriodEnd |-> clock + BillingPeriod, cancelsAt |-> NoDate]),
                consumerSubscriptions, notifications, nextId + 1,
                AcctResponse(200, "received"))
  ELSE IF event.type = "checkout.session.completed" /\ event.metaType = "consumer"
  THEN PlanStep(subscriptions,
                Append(WithStatus(consumerSubscriptions,
                                  FindActive(consumerSubscriptions, "userId", event.userId),
                                  "replaced"),
                       [id |-> nextId, storeId |-> "", userId |-> event.userId,
                        planId |-> event.planId, status |-> "active",
                        stripeSubscriptionId |-> event.subscription,
                        stripeCustomerId |-> event.customer,
                        currentPeriodEnd |-> NoDate, cancelsAt |-> NoDate]),
                notifications, nextId + 1,
                AcctResponse(200, "received"))
  ELSE IF event.type = "customer.subscription.updated"
  THEN LET b == FindStripe(subscriptions, event.subscription)
           c == FindStripe(consumerSubscriptions, event.subscription)
       IN PlanStep(IF b = 0 THEN subscriptions
                   ELSE [subscriptions EXCEPT ![b].status = updatedStatus(event),
                                              ![b].currentPeriodEnd = event.current_period_end],
                   WithStatus(consumerSubscriptions, c, updatedStatus(event)),
                   notifications, nextId, AcctResponse(200, "received"))
  ELSE IF event.type = "customer.subscription.deleted"
  THEN PlanStep(WithStatus(subscriptions,
                           FindStripe(subscriptions, event.subscription), "cancelled"),
                WithStatus(consumerSubscriptions,
                           FindStripe(consumerSubscriptions, event.subscription),
                           "cancelled"),
                notifications, nextId, AcctResponse(200, "received"))
  ELSE IF event.type = "invoice.payment_failed"
  THEN PlanStep(WithStatus(subscriptions,
                           FindCustomer(subscriptions, event.customer), "past_due"),
                WithStatus(consumerSubscriptions,
                           FindCustomer(consumerSubscriptions, event.customer), "past_due"),
                notifications, nextId, AcctResponse(200, "received"))
  ELSE PlanReply(AcctResponse(200, "received"))

\* time passes
Tick ==
  /\ clock + HalfPeriod <= MaxClock
  /\ clock' = clock + HalfPeriod
  /\ UNCHANGED <<subscriptions, consumerSubscriptions, acctRes, users, initVars, stores,
                 dbVars, geoVars, searchVars, queryVars, sqlVars>>

PlanStores == {"HOM_NY01", "LOW_NY01"}
StripeSubs == {"sub_1", "sub_2"}

Event(type, metaType, storeId, subscription, status, atEnd) ==
  [signed |-> TRUE, type |-> type, metaType |-> metaType, storeId |-> storeId,
   userId |-> "u2", planId |-> "professional", subscription |-> subscription,
   customer |-> "cus_1", status |-> status, cancel_at_period_end |-> atEnd,
   current_period_end |-> 2 * BillingPeriod]

\* events Stripe delivers, in any order and any number of times
Events ==
  {Event("checkout.session.completed", "b2b", st, id, "active", FALSE) :
     st \in PlanStores, id \in StripeSubs}
  \cup {Event("checkout.session.completed", "consumer", "", "sub_1", "active", FALSE)}
  \cup {Event("customer.subscription.updated", "", "", id, status, atEnd) :
          id \in StripeSubs, status \in {"active", "past_due"}, atEnd \in BOOLEAN}
  \cup {Event("customer.subscription.deleted", "", "", id, "canceled", FALSE) :
          id \in StripeSubs}
  \cup {Event("invoice.payment_failed", "", "", "", "", FALSE),
        Event("invoice.payment_succeeded", "", "", "", "", FALSE),
        [Event("invoice.payment_failed", "", "", "", "", FALSE) EXCEPT !.signed = FALSE]}

NextPlans ==
  \/ \E role \in {"customer", "store_owner"}, storeId \in PlanStores \cup {""},
        planId \in {"free", "professional", "gold"} :
       Subscribe(role, "u2", storeId, planId)
  \/ \E role \in {"customer", "store_owner"}, storeId \in PlanStores :
       CancelSubscription(role, storeId)
  \/ \E role \in {"customer", "store_owner"}, storeId \in PlanStores : Insights(role, storeId)
  \/ \E planId \in {"free", "radar_pro", "gold"} : ConsumerSubscribe("u1", planId)
  \/ ConsumerCancel("u1")
  \/ Membership("u1")
  \/ \E storeId \in PlanStores, newPlanId \in {"starter", "free"}, threw \in BOOLEAN :
       ChangePlan("store_owner", storeId, newPlanId, threw)
  \/ \E storeId \in PlanStores, immediate \in BOOLEAN, threw \in BOOLEAN :
       PaymentsCancel("store_owner", storeId, immediate, threw, clock + BillingPeriod)
  \/ \E event \in Events : Webhook(event)
  \/ Tick

InitPlans ==
  /\ stores = SeedStores
  /\ products = PRODUCTS
  /\ QueryIdle
  /\ SqlSeeded
  /\ AcctIdle
  /\ inventory = SeedInventory
  /\ nearbyReq = [lat |-> Undefined, lng |-> Undefined, radius |-> Undefined]
  /\ nearbyRes = NoResponse
  /\ req = NoRequest /\ res = NoResponse /\ walk = <<>>
  /\ sortChoice = 1
  /\ orders = <<>> /\ notifications = <<>> /\ placed = <<>>
  /\ nextId = 1 /\ shopRes = NoShopResponse
  /\ budget = PlanBudget
  /\ statusCaller = "none"

SpecPlans == InitPlans /\ [][NextPlans]_vars

(***************************************************************************)
(* Store claims (routes/dashboard claim-store, available-stores).          *)
(***************************************************************************)
ClaimBudget == 4

\* the accounts of the users array
RegisteredUsers ==
  << [id |-> "u1", role |-> "customer", claimedStores |-> <<>>],
     [id |-> "u2", role |-> "store_owner", claimedStores |-> <<>>],
     [id |-> "u3", role |-> "store_owner", claimedStores |-> <<>>] >>

\* db.users.find(u => u.id === id), as an index
IndexOfUser(id) ==
  IF \E i \in 1..Len(users) : users[i].id = id
  THEN CHOOSE i \in 1..Len(users) : users[i].id = id /\ \A j \in 1..(i - 1) : users[j].id # id
  ELSE 0

\* list.includes(x)
Includes(list, x) == \E i \in 1..Len(list) : list[i] = x

\* a request of the claim routes
ClaimStep(usr, response) ==
  /\ budget > 0 /\ budget' = budget - 1
  /\ users' = usr
  /\ acctRes' = response
  /\ UNCHANGED <<planVars, initVars, stores, inventory, sortChoice, orders, notifications,
                 nextId, shopRes, placed, statusCaller, geoVars, searchVars, queryVars,
                 sqlVars>>

\* POST /api/dashboard/claim-store; caller: req.user, the id and the role
\* of the token
ClaimStore(caller, storeId) ==
  LET u == IndexOfUser(caller.id)
  IN IF ~Authorized(caller.role)
     THEN ClaimStep(users, AcctResponse(403, "Access denied"))
     ELSE IF storeId = ""
     THEN ClaimStep(users, AcctResponse(400, "storeId required"))
     ELSE IF \A k \in 1..Len(stores) : stores[k].storeId # storeId
     THEN ClaimStep(users, AcctResponse(404, "Store not found"))
     ELSE IF u = 0
     THEN ClaimStep(users, AcctResponse(404, "User not found"))
     ELSE IF Includes(users[u].claimedStores, storeId)
     THEN ClaimStep(users, [status |-> 400, message |-> "Store already claimed",
                            storeId |-> storeId, plan |-> ""])
     ELSE ClaimStep([users EXCEPT ![u].claimedStores = Append(@, storeId)],
                    [status |-> 200, message |-> "Store claimed successfully",
                     storeId |-> storeId, plan |-> ""])

\* the claimedSet of available-stores
claimedSet ==
  {users[i].claimedStores[k] : <<i, k>> \in
     {<<i, k>> \in (1..Len(users)) \X (1..Len(stores)) : k <= Len(users[i].claimedStores)}}

\* GET /api/dashboard/available-stores without filters
AvailableStores(caller) ==
  IF ~Authorized(caller.role)
  THEN ClaimStep(users, AcctResponse(403, "Access denied"))
  ELSE ClaimStep(users,
                 [status |-> 200, message |-> "available-stores",
                  stores |-> [k \in 1..Len(stores) |->
                                [storeId |-> stores[k].storeId,
                                 claimed |-> stores[k].storeId \in claimedSet]]])

Callers ==
  {[id |-> "u1", role |-> "customer"], [id |-> "u2", role |-> "store_owner"],
   [id |-> "u3", role |-> "store_owner"], [id |-> "u9", role |-> "store_owner"]}

NextClaims ==
  \/ \E caller \in Callers, storeId \in {"HOM_NY01", "LOW_NY01", "NOPE", ""} :
       ClaimStore(caller, storeId)
  \/ \E caller \in Callers : AvailableStores(caller)

InitClaims ==
  /\ stores = SeedStores
  /\ products = PRODUCTS
  /\ QueryIdle
  /\ SqlSeeded
  /\ inventory = SeedInventory
  /\ nearbyReq = [lat |-> Undefined, lng |-> Undefined, radius |-> Undefined]
  /\ nearbyRes = NoResponse
  /\ req = NoRequest /\ res = NoResponse /\ walk = <<>>
  /\ sortChoice = 1
  /\ orders = <<>> /\ notifications = <<>> /\ placed = <<>>
  /\ nextId = 1 /\ shopRes = NoShopResponse
  /\ budget = ClaimBudget
  /\ statusCaller = "none"
  /\ users = RegisteredUsers
  /\ subscriptions = <<>> /\ consumerSubscriptions = <<>>
  /\ clock = 0 /\ acctRes = NoAcctResponse
  /\ dbFile = NoFile
  /\ initPc = [p \in InitCalls |-> "done"]
  /\ initialized = TRUE /\ dbInitialized = TRUE /\ handlerInitialized = TRUE

SpecClaims == InitClaims /\ [][NextClaims]_vars

(***************************************************************************)
(* Orders of a store (routes/dashboard orders).                            *)
(***************************************************************************)
\* o.storeId of an order; the orders of POST /api/orders have no such field
OrderStoreId(o) == IF "storeId" \in DOMAIN o THEN o.storeId ELSE "undefined"

\* list.filter(keep), order kept
RECURSIVE FilterOrders(_, _, _)
FilterOrders(list, storeId, status) ==
  IF list = <<>> THEN <<>>
  ELSE IF OrderStoreId(Head(list)) = storeId /\ (status = "" \/ Head(list).status = status)
  THEN <<Head(list)>> \o FilterOrders(Tail(list), storeId, status)
  ELSE FilterOrders(Tail(list), storeId, status)

\* a request of the store-order routes
StoreOrderStep(ord, response) ==
  /\ budget > 0 /\ budget' = budget - 1
  /\ orders' = ord
  /\ acctRes' = response
  /\ UNCHANGED <<users, planVars, initVars, stores, inventory, sortChoice, notifications,
                 nextId, shopRes, placed, statusCaller, geoVars, searchVars, queryVars,
                 sqlVars>>

\* GET /api/dashboard/orders/:storeId with the default page (1) and limit
\* (20), which holds every order there can be; sorted by createdAt
\* descending, the newest order first
DashboardOrders(role, storeId, status) ==
  IF ~Authorized(role)
  THEN StoreOrderStep(orders, AcctResponse(403, "Access denied"))
  ELSE StoreOrderStep(orders,
                      [status |-> 200, message |-> "orders", storeId |-> storeId,
                       filter |-> status,
                       orders |-> Reverse(FilterOrders(orders, storeId, status))])

DashboardStatuses ==
  {"confirmed", "preparing", "ready_for_pickup", "out_for_delivery", "delivered",
   "picked_up", "cancelled"}

\* PUT /api/dashboard/orders/:storeId/:orderId/status
DashboardUpdateOrderStatus(role, storeId, orderId, status) ==
  LET found == {k \in 1..Len(orders) :
                  orders[k].id = orderId /\ OrderStoreId(orders[k]) = storeId}
  IN IF ~Authorized(role)
     THEN StoreOrderStep(orders, AcctResponse(403, "Access denied"))
     ELSE IF status \notin DashboardStatuses
     THEN StoreOrderStep(orders, AcctResponse(400, "Invalid status"))
     ELSE IF found = {}
     THEN StoreOrderStep(orders, [status |-> 404, message |-> "Order not found",
                                  storeId |-> storeId, id |-> orderId])
     ELSE StoreOrderStep([orders EXCEPT ![CHOOSE k \in found : \A j \in found : k <= j].status =
                                          status],
                         [status |-> 200, message |-> "Order status updated",
                          storeId |-> storeId, id |-> orderId])

NextStoreOrders ==
  \/ NextOrders
  \/ \E role \in {"customer", "store_owner"}, storeId \in {"HOM_NY01", "LOW_NY01"},
        status \in {"", "pending"} :
       DashboardOrders(role, storeId, status)
  \/ \E role \in {"customer", "store_owner"}, storeId \in {"HOM_NY01", "LOW_NY01"},
        orderId \in 1..MaxOrders, status \in {"confirmed", "flying"} :
       DashboardUpdateOrderStatus(role, storeId, orderId, status)

SpecStoreOrders == InitOrders /\ [][NextStoreOrders]_vars

(***************************************************************************)
(* Store generation (data/catalog generateStores), run once when the       *)
(* database module builds its store chains.  Retailer keys, states and     *)
(* store ids are strings here, as in the store records.                    *)
(***************************************************************************)
MaxStoresPerCity == 2

UpperLetters == "ABCDEFGHIJKLMNOPQRSTUVWXYZ"
LowerLetters == "abcdefghijklmnopqrstuvwxyz"
DigitChars == "0123456789"

charAt(str, i) == SubSeq(str, i, i)

InAlphabet(alphabet, c) == \E i \in 1..Len(alphabet) : charAt(alphabet, i) = c

IndexIn(alphabet, c) == CHOOSE i \in 1..Len(alphabet) : charAt(alphabet, i) = c

\* str.charCodeAt(i) for the characters of a store id and its suffixes
charCodeAt(c) ==
  IF InAlphabet(DigitChars, c) THEN 47 + IndexIn(DigitChars, c)
  ELSE IF InAlphabet(UpperLetters, c) THEN 64 + IndexIn(UpperLetters, c)
  ELSE IF InAlphabet(LowerLetters, c) THEN 96 + IndexIn(LowerLetters, c)
  ELSE IF c = "_" THEN 95
  ELSE 45

\* retailerKey.toUpperCase().replace(/[^A-Z]/g, '')
RECURSIVE upperLettersOf(_)
upperLettersOf(str) ==
  IF Len(str) = 0 THEN ""
  ELSE LET c == charAt(str, 1)
           rest == upperLettersOf(SubSeq(str, 2, Len(str)))
       IN IF InAlphabet(LowerLetters, c) THEN charAt(UpperLetters, IndexIn(LowerLetters, c)) \o rest
          ELSE IF InAlphabet(UpperLetters, c) THEN c \o rest
          ELSE rest

\* hash = ((hash << 5) - hash) + c; hash |= 0, on a 32-bit value kept as two
\* 16-bit halves
RECURSIVE hashFrom(_, _, _)
hashFrom(str, hi, lo) ==
  IF Len(str) = 0
  THEN (IF hi >= 32768 THEN (hi - 65536) * 65536 + lo ELSE hi * 65536 + lo)
  ELSE LET low == lo * 31 + charCodeAt(charAt(str, 1))
       IN hashFrom(SubSeq(str, 2, Len(str)), (hi * 31 + low \div 65536) % 65536, low % 65536)

hashCode(str) == hashFrom(str, 0, 0)

\* a % b of JavaScript: the sign of the dividend
JsRem(a, b) == IF a >= 0 THEN a % b ELSE -((-a) % b)

\* String(n).padStart(2, '0')
padStart2(n) ==
  IF n < 10 THEN "0" \o charAt(DigitChars, n + 1)
  ELSE charAt(DigitChars, (n \div 10) + 1) \o charAt(DigitChars, (n % 10) + 1)

City(city, state, lat, lng) == [city |-> city, state |-> state, lat |-> lat, lng |-> lng]

CITIES ==
  << City("Brooklyn", "NY", BrooklynLat, BrooklynLng),
     City("Queens", "NY", 407282, -737949),
     City("Jersey City", "NJ", 407178, -740431) >>

RETAILERS == <<"homedepot", "lowes", "target", "walmart", "walgreens", "acehardware">>

getBigCities == {"Brooklyn"}

\* the cities of a retailer, out of the cities given
RETAILER_CITY_MAP(retailerKey, cities) ==
  IF retailerKey \in {"lowes", "walmart"}
  THEN SelectSeq(cities, LAMBDA c : c.city # "Jersey City")
  ELSE IF retailerKey = "acehardware"
  THEN SelectSeq(cities, LAMBDA c : c.city = "Brooklyn")
  ELSE cities

\* the body of the innermost loop: one store, its id from the first three
\* letters of the retailer key, the state and the retailer's counter
generatedStore(retailerKey, cityData, counter) ==
  LET prefix == SubSeq(upperLettersOf(retailerKey), 1, 3)
      storeId == prefix \o "_" \o cityData.state \o padStart2(counter)
      latOffset == (JsRem(hashCode(storeId \o "-lat"), 40) - 20) * 10
      lngOffset == (JsRem(hashCode(storeId \o "-lng"), 40) - 20) * 10
  IN Store(storeId, retailerKey, cityData.lat + latOffset, cityData.lng + lngOffset)

\* the loop over the cities of one retailer
RECURSIVE storesOfRetailer(_, _, _)
storesOfRetailer(retailerKey, cities, counter) ==
  IF cities = <<>> THEN <<>>
  ELSE LET numStores == IF Head(cities).city \in getBigCities THEN MaxStoresPerCity ELSE 1
       IN [i \in 1..numStores |-> generatedStore(retailerKey, Head(cities), counter + i)]
          \o storesOfRetailer(retailerKey, Tail(cities), counter + numStores)

RECURSIVE generateStores(_, _)
generateStores(retailerKeys, cities) ==
  IF retailerKeys = <<>> THEN <<>>
  ELSE storesOfRetailer(Head(retailerKeys), RETAILER_CITY_MAP(Head(retailerKeys), cities), 0)
       \o generateStores(Tail(retailerKeys), cities)

\* buildStoreChains: _allStores is filled from generateStores()
BuildStoreChains ==
  /\ stores = <<>>
  /\ \E retailerKeys \in SubSeqs(RETAILERS), cities \in SubSeqs(CITIES) :
       stores' = generateStores(retailerKeys, cities)
  /\ UNCHANGED <<inventory, geoVars, queryVars, sqlVars, acctVars, searchVars, sortChoice, shopVars>>

InitCatalog ==
  /\ stores = <<>>
  /\ products = PRODUCTS
  /\ QueryIdle
  /\ SqlSeeded
  /\ AcctIdle
  /\ inventory = <<>>
  /\ nearbyReq = [lat |-> Undefined, lng |-> Undefined, radius |-> Undefined]
  /\ nearbyRes = NoResponse
  /\ req = NoRequest /\ res = NoResponse /\ walk = <<>>
  /\ sortChoice = 1 /\ ShopIdle

NextCatalog == BuildStoreChains

SpecCatalog == InitCatalog /\ [][NextCatalog]_vars

(***************************************************************************)
(* SQL query layer (db/queries) over the sql.js handle sqlite.db.  The     *)
(* inventory table holds the inventory records, the stores table the       *)
(* stores.  A call ends by returning a value or by throwing.               *)
(***************************************************************************)
Returned(v) == [outcome |-> "returned", value |-> v]
Threw == [outcome |-> "threw", value |-> <<>>]

\* the stores table: storeId is its primary key and bulkInsertStores adds
\* rows with INSERT OR IGNORE, so the first store of an id stays
RECURSIVE bulkInsertStores(_, _)
bulkInsertStores(table, list) ==
  IF list = <<>> THEN table
  ELSE bulkInsertStores(
         IF \E k \in 1..Len(table) : table[k].storeId = Head(list).storeId
         THEN table ELSE Append(table, Head(list)),
         Tail(list))

\* db.exec(sql, params): the rows the statement selects, or an exception
dbExec(db, rows) ==
  IF db = "throwing" THEN [threw |-> TRUE, rows |-> <<>>]
  ELSE [threw |-> FALSE, rows |-> rows]

\* LIMIT ? OFFSET ?
limitOffset(rows, limit, offset) ==
  SubSeq(rows, offset + 1, IF offset + limit < Len(rows) THEN offset + limit ELSE Len(rows))

\* the SELECT of searchInventory: one LIKE condition per term of the query,
\* the price range, the stock flag; ORDER BY i.productName ASC (rows of the
\* same name in table order)
searchRows(q) ==
  LET terms == IF trim(q.query) = <<>> THEN <<>>
               ELSE splitWords(trim(toLowerCase(q.query)))
      matching == SelectSeq(inventory, LAMBDA i :
        /\ \A t \in 1..Len(terms) : includes(toLowerCase(i.productName), terms[t])
        /\ q.minPrice.kind # "undefined" => i.price >= ParseFloat(q.minPrice)
        /\ q.maxPrice.kind # "undefined" => i.price <= ParseFloat(q.maxPrice)
        /\ q.inStockOnly => i.inStock)
      ordered == StableSort(matching, LAMBDA x, y : StringLess(x.productName, y.productName))
  IN limitOffset(ordered, JsOr(q.limit, 100), JsOr(q.offset, 0))

searchInventory(db, q) ==
  IF db = "missing" THEN Returned(<<>>)
  ELSE LET results == dbExec(db, searchRows(q))
       IN IF results.threw THEN Returned(<<>>) ELSE Returned(results.rows)

\* the SELECT of findNearbyStores: the rows inside the bounding box with
\* their distance, ORDER BY distance ASC (the distance in tenths of a mile)
nearbyRows(lat, lng, radiusMiles, retailerFilter) ==
  LET table == bulkInsertStores(<<>>, stores)
      box == getBoundingBox(lat, lng, radiusMiles)
      boxed == SelectSeq(table, LAMBDA s :
                 InBox(s, box) /\ (retailerFilter # "" => s.retailer = retailerFilter))
      measured == MapSeq(boxed, LAMBDA s : WithDistance(s, lat, lng))
  IN StableSort(measured, LAMBDA x, y : x.distance < y.distance)

queryFindNearbyStores(db, lat, lng, radiusMiles, retailerFilter) ==
  IF db = "missing" THEN Returned(<<>>)
  ELSE LET results == dbExec(db, nearbyRows(lat, lng, radiusMiles, retailerFilter))
       IN IF results.threw THEN Returned(<<>>)
          ELSE Returned(SelectSeq(results.rows, LAMBDA s : s.distance <= radiusMiles))

\* the SELECT of getStoreInventory: the rows of the store whose name holds
\* the query; ORDER BY i.category, i.productName
storeInventoryRows(storeId, q) ==
  LET matching == SelectSeq(inventory, LAMBDA i :
        /\ i.storeId = storeId
        /\ q.query # <<>> => includes(toLowerCase(i.productName), toLowerCase(q.query)))
      categoryOf(i) == products[CHOOSE k \in 1..Len(products) :
                                  products[k].sku = i.productSku].category
      ordered == StableSort(matching, LAMBDA x, y :
        \/ StringLess(categoryOf(x), categoryOf(y))
        \/ categoryOf(x) = categoryOf(y) /\ StringLess(x.productName, y.productName))
  IN limitOffset(ordered, JsOr(q.limit, 500), JsOr(q.offset, 0))

getStoreInventory(db, storeId, q) ==
  IF db = "missing" THEN Returned(<<>>)
  ELSE LET results == dbExec(db, storeInventoryRows(storeId, q))
       IN IF results.threw THEN Returned(<<>>) ELSE Returned(results.rows)

\* one call into the query layer
SearchInventory ==
  /\ queryCall.fn = "searchInventory" /\ queryRet = NoReturn
  /\ queryRet' = searchInventory(sqliteDb, queryCall.args)
  /\ UNCHANGED <<sqliteDb, queryCall, stores, inventory, geoVars, sqlVars, acctVars, searchVars, sortChoice, shopVars>>

QueryNearbyStores ==
  /\ queryCall.fn = "findNearbyStores" /\ queryRet = NoReturn
  /\ queryRet' = queryFindNearbyStores(sqliteDb, queryCall.args.lat, queryCall.args.lng,
                                       queryCall.args.radiusMiles, queryCall.args.retailerFilter)
  /\ UNCHANGED <<sqliteDb, queryCall, stores, inventory, geoVars, sqlVars, acctVars, searchVars, sortChoice, shopVars>>

GetStoreInventory ==
  /\ queryCall.fn = "getStoreInventory" /\ queryRet = NoReturn
  /\ queryRet' = getStoreInventory(sqliteDb, queryCall.args.storeId, queryCall.args)
  /\ UNCHANGED <<sqliteDb, queryCall, stores, inventory, geoVars, sqlVars, acctVars, searchVars, sortChoice, shopVars>>

Providers == {"missing", "throwing", "open"}

QueryCalls ==
  {[fn |-> "searchInventory",
    args |-> [query |-> q, minPrice |-> lo, maxPrice |-> hi, inStockOnly |-> st,
              limit |-> lim, offset |-> off]] :
     q \in {<<>>, <<"b">>, <<"a", " ", "b">>}, lo \in {Undefined, Num(18)},
     hi \in {Undefined, Num(20)}, st \in BOOLEAN, lim \in {0, 2}, off \in {0, 1}}
  \cup
  {[fn |-> "findNearbyStores",
    args |-> [lat |-> la, lng |-> ln, radiusMiles |-> r, retailerFilter |-> rt]] :
     la \in {BrooklynLat, DefaultLat}, ln \in {BrooklynLng, DefaultLng},
     r \in {5, 10, 100}, rt \in {"", "walmart", "walgreens"}}
  \cup
  {[fn |-> "getStoreInventory",
    args |-> [storeId |-> id, query |-> q, limit |-> lim, offset |-> off]] :
     id \in {"HOM_NY01", "WAL_NY01", "XXX_NY01"}, q \in {<<>>, <<"B">>},
     lim \in {0, 1}, off \in {0, 1}}

InitQueries ==
  /\ stores = SeedStores
  /\ products = PRODUCTS
  /\ inventory \in {SeedInventory, SoldOut(SeedInventory, 5)}
  /\ nearbyReq = [lat |-> Undefined, lng |-> Undefined, radius |-> Undefined]
  /\ nearbyRes = NoResponse
  /\ req = NoRequest /\ res = NoResponse /\ walk = <<>>
  /\ sortChoice = 1 /\ ShopIdle
  /\ sqliteDb \in Providers
  /\ queryCall \in QueryCalls
  /\ SqlSeeded
  /\ AcctIdle
  /\ queryRet = NoReturn

NextQueries == SearchInventory \/ QueryNearbyStores \/ GetStoreInventory

SpecQueries == InitQueries /\ [][NextQueries]_vars

BareStore(s) == Store(s.storeId, s.retailer, s.lat, s.lng)

\* C1: findNearbyStores returns exactly the input stores whose distance from
\* the query point is at most the radius: none farther, and none within the
\* radius is left out; a store at distance 0.0 is returned when the radius
\* is 0.
C1_ExactlyInRadius ==
  nearbyRes.status = 200 =>
    LET loc == nearbyRes.location
    IN {BareStore(s) : s \in Range(nearbyRes.stores)}
         = {s \in Range(stores) :
              JsLeq(calculateDistance(loc.lat, loc.lng, s.lat, s.lng), loc.radius)}

\* the place of a returned store in the input list
InputIndex(s) == CHOOSE k \in 1..Len(stores) : stores[k] = BareStore(s)

\* C15: the list findNearbyStores returns is in non-decreasing order of
\* distance, and stores of equal distance keep the relative order they have
\* in the input list.
C15_SortedByDistanceStable ==
  nearbyRes.status = 200 =>
    \A i, j \in 1..Len(nearbyRes.stores) :
      i < j =>
        /\ nearbyRes.stores[i].distance <= nearbyRes.stores[j].distance
        /\ nearbyRes.stores[i].distance = nearbyRes.stores[j].distance
             => InputIndex(nearbyRes.stores[i]) < InputIndex(nearbyRes.stores[j])

\* an input list that is not in order of distance, answered with a list
\* holding two stores at the same distance and one nearer
C15_Witness ==
  /\ nearbyRes.status = 200
  /\ \E i, j \in 1..Len(nearbyRes.stores) :
       /\ i < j
       /\ nearbyRes.stores[i].distance < nearbyRes.stores[j].distance
       /\ InputIndex(nearbyRes.stores[i]) > InputIndex(nearbyRes.stores[j])
  /\ \E i, j \in 1..Len(nearbyRes.stores) :
       /\ i < j
       /\ nearbyRes.stores[i].distance = nearbyRes.stores[j].distance
       /\ nearbyRes.stores[i].storeId # nearbyRes.stores[j].storeId

(***************************************************************************)
(* Properties of the search.                                               *)
(***************************************************************************)
ProductOfSku(sku) == PRODUCTS[CHOOSE i \in 1..Len(PRODUCTS) : PRODUCTS[i].sku = sku]

Listed(sku) == \E i \in 1..Len(res.results) : res.results[i].product.sku = sku

\* the stores the response's location and radius make nearby
ResNearby ==
  findNearbyStores(stores, res.location.lat, res.location.lng, res.location.radius)

QueryTerms == splitWords(toLowerCase(req.query))

\* the score as the claim states it: per term, 3 for the name, 2 when some
\* keyword contains the term, 1 for the category
StatedTermScore(product, term) ==
  (IF includes(toLowerCase(product.name), term) THEN 3 ELSE 0)
  + (IF \E k \in 1..Len(product.keywords) : includes(toLowerCase(product.keywords[k]), term)
     THEN 2 ELSE 0)
  + (IF includes(product.category, term) THEN 1 ELSE 0)

StatedScore(product, terms) ==
  IF terms = <<>> THEN 1
  ELSE SumSeq(MapSeq(terms, LAMBDA term : StatedTermScore(product, term)))

\* the product passes the category and retailer filters and has a record left
\* after the stock and price filters
Carried(product) ==
  /\ trim(req.category) = <<>> \/ product.category = toLowerCase(trim(req.category))
  /\ req.retailer = "" \/ RetailerLower(req.retailer) \in product.retailers
  /\ Len(filteredInvOf(product, ResNearby, req)) > 0

\* C2: every listed product carries the score 3 * (terms in its name) + 2 *
\* (terms in its keywords) + 1 * (terms in its category); a product scoring 0
\* is not listed; with an empty query every product scores 1 and scoring
\* excludes none.
C2_RelevanceScore ==
  res.status = 200 =>
    /\ \A i \in 1..Len(res.results) :
         res.results[i].relevanceScore
           = StatedScore(ProductOfSku(res.results[i].product.sku), QueryTerms)
    /\ \A i \in 1..Len(PRODUCTS) :
         (QueryTerms # <<>> /\ StatedScore(PRODUCTS[i], QueryTerms) = 0)
           => ~Listed(PRODUCTS[i].sku)
    /\ (ToNumber(res.pagination.page) = 1 /\ res.pagination.totalPages <= 1) =>
         \A i \in 1..Len(PRODUCTS) :
           (StatedScore(PRODUCTS[i], QueryTerms) > 0 /\ Carried(PRODUCTS[i]))
             => Listed(PRODUCTS[i].sku)

\* the query "ab": the first product matches by name only (its keywords are
\* "a" and "b"), the third product does not match and is left out
C2_Witness ==
  /\ res.status = 200
  /\ QueryTerms = << <<"a", "b">> >>
  /\ \E i \in 1..Len(res.results) :
       res.results[i].product.sku = "RR-PT-001" /\ res.results[i].relevanceScore = 3
  /\ Carried(PRODUCTS[3]) /\ ~Listed("RR-PT-003")

InBounds(price) ==
  /\ req.minPrice.kind # "undefined" => JsGeq(price, ToNumber(req.minPrice))
  /\ req.maxPrice.kind # "undefined" => JsLeq(price, ToNumber(req.maxPrice))

InRadiusIds ==
  {st.storeId : st \in {x \in Range(stores) :
     calculateDistance(res.location.lat, res.location.lng, x.lat, x.lng)
       <= res.location.radius}}

\* C3: when minPrice or maxPrice is supplied every bestPrice returned lies
\* within the bounds, and a product is returned only if one of its records
\* at an in-radius store is priced within them.
C3_PriceBounds ==
  (res.status = 200 /\ (req.minPrice.kind # "undefined" \/ req.maxPrice.kind # "undefined")) =>
    \A i \in 1..Len(res.results) :
      /\ InBounds(res.results[i].bestPrice)
      /\ \E k \in 1..Len(inventory) :
           /\ inventory[k].productSku = res.results[i].product.sku
           /\ inventory[k].storeId \in InRadiusIds
           /\ InBounds(inventory[k].price)

RECURSIVE Flatten(_)
Flatten(seqs) == IF seqs = <<>> THEN <<>> ELSE Head(seqs) \o Flatten(Tail(seqs))

\* C4: the pages 1..totalPages at a fixed limit, concatenated, are the full
\* sorted result list, each result once; totalResults is its length and
\* totalPages = ceil(totalResults / limit).
C4_PagesConcatenate ==
  (res.status = 200 /\ Len(walk) >= 1 /\ Len(walk) >= res.pagination.totalPages) =>
    LET full == SortedResults(Sanitized(req))
        shown == IF res.pagination.totalPages = 0 THEN <<>> ELSE Flatten(walk)
    IN /\ shown = full
       /\ res.pagination.totalResults = Len(full)
       /\ res.pagination.totalPages * ToNumber(res.pagination.limit) >= Len(full)
       /\ (res.pagination.totalPages - 1) * ToNumber(res.pagination.limit) < Len(full)
          \/ res.pagination.totalPages = 0

\* the distance of the store a record is held at
StoreDistance(inv) == storeMapGet(ResNearby, inv.storeId).distance

\* C5: nearestStore is the store of the surviving record whose store is the
\* closest to the query point, for all distances >= 0; on a tie the first
\* such record in inventory order.
C5_NearestStore ==
  res.status = 200 =>
    \A i \in 1..Len(res.results) :
      LET surviving == filteredInvOf(ProductOfSku(res.results[i].product.sku), ResNearby, req)
          first == CHOOSE k \in 1..Len(surviving) :
                     /\ \A j \in 1..Len(surviving) :
                          StoreDistance(surviving[k]) <= StoreDistance(surviving[j])
                     /\ \A j \in 1..(k - 1) :
                          StoreDistance(surviving[j]) > StoreDistance(surviving[k])
      IN /\ res.results[i].nearestStore.id = surviving[first].storeId
         /\ res.results[i].nearestStore.distance = StoreDistance(surviving[first])

\* C10: the search runs at the requested coordinates, lat = 0 and lng = 0
\* included; where no store lies within the radius of them the response is
\* results [], totalResults 0, totalPages 0.
C10_UsesRequestedLocation ==
  (res.status = 200 /\ req.lat.kind = "number" /\ req.lng.kind = "number") =>
    /\ res.location.lat = req.lat.num
    /\ res.location.lng = req.lng.num
    /\ (\A k \in 1..Len(stores) :
          calculateDistance(req.lat.num, req.lng.num, stores[k].lat, stores[k].lng)
            > res.location.radius)
       => /\ res.results = <<>>
          /\ res.pagination.totalResults = 0
          /\ res.pagination.totalPages = 0

\* C11: with sortBy = distance and sortOrder = asc the results come in
\* non-decreasing order of nearestStore.distance, a distance of 0 included;
\* only a missing distance counts as infinitely far.
C11_DistanceAscending ==
  (res.status = 200 /\ res.sorting.sortBy = "distance" /\ res.sorting.sortOrder = "asc") =>
    \A i, j \in 1..Len(res.results) :
      i < j => res.results[i].nearestStore.distance <= res.results[j].nearestStore.distance

CatalogIndex(sku) == CHOOSE i \in 1..Len(PRODUCTS) : PRODUCTS[i].sku = sku

\* C12: with sortBy = relevance, or sortBy omitted, the results come in
\* non-increasing order of relevance score whether sortOrder is asc or desc,
\* and results of equal score keep their catalog order.
C12_RelevanceDescending ==
  (res.status = 200 /\ res.sorting.sortBy = "relevance") =>
    \A i, j \in 1..Len(res.results) :
      i < j =>
        /\ res.results[i].relevanceScore >= res.results[j].relevanceScore
        /\ res.results[i].relevanceScore = res.results[j].relevanceScore
             => CatalogIndex(res.results[i].product.sku)
                  < CatalogIndex(res.results[j].product.sku)

\* the query "b" sorted by relevance, sortOrder asc: scores 6, 5, 5, the
\* second and third products tied and in catalog order
C12_Witness ==
  /\ res.status = 200 /\ res.sorting.sortBy = "relevance"
  /\ req.sortOrder = "asc"
  /\ Len(res.results) = 3
  /\ res.results[1].relevanceScore > res.results[2].relevanceScore
  /\ res.results[2].relevanceScore = res.results[3].relevanceScore
  /\ res.results[2].product.sku = "RR-PT-002" /\ res.results[3].product.sku = "RR-PT-003"

\* the records of a listed product that survive the filters of the request
Surviving(result) == filteredInvOf(ProductOfSku(result.product.sku), ResNearby, req)

\* C13: for every search result, storeCount is the number of distinct stores
\* among the product's surviving inventory records.
C13_StoreCountDistinct ==
  res.status = 200 =>
    \A i \in 1..Len(res.results) :
      res.results[i].storeCount
        = Cardinality({inv.storeId : inv \in Range(Surviving(res.results[i]))})

\* C14: for every search result, bestPrice is the minimum price over the
\* product's surviving inventory records, chosen independently of the nearest
\* store: the nearest store's price may be higher than bestPrice, never lower.
C14_BestPriceIsMinimum ==
  res.status = 200 =>
    \A i \in 1..Len(res.results) :
      LET surviving == Surviving(res.results[i])
          best == res.results[i].bestPrice
      IN /\ \E k \in 1..Len(surviving) : surviving[k].price = best
         /\ \A k \in 1..Len(surviving) :
              surviving[k].price # NaN => JsLeq(best, surviving[k].price)
         /\ ~JsLt(res.results[i].nearestStore.price, best)

C17_RadiusClamped ==
  ( /\ res.status # 0
    /\ IsNumeric(req.radius) /\ ToNumber(req.radius) > MaxRadius
    /\ ValidSearch([req EXCEPT !.radius = Undefined]) )
  => /\ res.status = 200
     /\ res.location.radius = MaxRadius

\* C18: when the storage provider fails (the database handle is missing or a
\* query throws), searchInventory, findNearbyStores and getStoreInventory of
\* the query layer end in an error; none returns an empty but successful
\* result in place of the failure.
C18_ProviderFailureSurfaces ==
  (queryRet # NoReturn /\ sqliteDb # "open") => queryRet.outcome = "threw"

\* C19: store identifiers are unique: no two stores that generateStores
\* produces, across all retailers, cities and states, share a storeId.
C19_StoreIdsUnique ==
  \A i, j \in 1..Len(stores) : i # j => stores[i].storeId # stores[j].storeId

\* C20: PUT /api/orders/:id/status changes an order's status only for a
\* caller whose role is admin or store_owner; a customer's request is
\* rejected and leaves the order's status and status history as they were.
C20_StatusUpdateNeedsRole ==
  [][\A k \in 1..Len(orders) :
       ( /\ shopRes'.message = "Order status updated"
         /\ Len(orders') = Len(orders)
         /\ \/ orders'[k].status # orders[k].status
            \/ orders'[k].statusHistory # orders[k].statusHistory )
       => statusCaller' \in {"admin", "store_owner"}]_vars

\* C21: every order created, every status change or cancellation and every
\* inventory quantity change made through the API has been written to
\* SQLite, so that a restart, which reloads the arrays from SQLite, finds
\* the orders and the inventory as they were before it.
C21_RestartKeepsState ==
  /\ loadAll.orders = orders
  /\ loadAll.inventory = inventory

\* C22: the database initializes once per cold start: however the db.init()
\* calls of concurrent requests interleave, every persisted or seeded user,
\* order, subscription and inventory row is in its in-memory array exactly
\* once.
C22_RowsLoadedOnce ==
  /\ \A i, j \in 1..Len(users) : users[i].id = users[j].id => i = j
  /\ \A i, j \in 1..Len(orders) : orders[i].id = orders[j].id => i = j
  /\ \A i, j \in 1..Len(subscriptions) : subscriptions[i].id = subscriptions[j].id => i = j
  /\ \A i, j \in 1..Len(inventory) : inventory[i].id = inventory[j].id => i = j

\* the record at index k of a list of subscriptions is the owner's
\* cancelled paid plan: it is cancelling with cancelsAt = currentPeriodEnd,
\* the period has not ended, and the owner has started no other plan since
CancelledInPeriod(list, key, k) ==
  /\ list[k].status = "cancelling"
  /\ list[k].planId # "free"
  /\ list[k].cancelsAt = list[k].currentPeriodEnd
  /\ clock < list[k].cancelsAt
  /\ \A j \in 1..Len(list) :
       j # k /\ list[j][key] = list[k][key] => list[j].status \notin {"active", "cancelling"}

\* C23: after a B2B subscription or a consumer membership is cancelled
\* (status cancelling, cancelsAt = currentPeriodEnd), a plan lookup made
\* before the end of the billing period answers with the cancelled paid
\* plan, not with the free plan.
C23_BenefitsUntilPeriodEnd ==
  /\ \A k \in 1..Len(subscriptions) :
       ( /\ CancelledInPeriod(subscriptions, "storeId", k)
         /\ acctRes.message \in {"insights", "Market insights require Professional"}
         /\ acctRes.storeId = subscriptions[k].storeId )
       => acctRes.plan = subscriptions[k].planId
  /\ \A k \in 1..Len(consumerSubscriptions) :
       ( /\ CancelledInPeriod(consumerSubscriptions, "userId", k)
         /\ acctRes.message = "membership"
         /\ acctRes.storeId = consumerSubscriptions[k].userId )
       => acctRes.plan = consumerSubscriptions[k].planId

\* C28: whatever subscribe, cancel and change-plan requests and Stripe
\* events arrive, in any order and any number of times, no store has two
\* B2B subscriptions with status active, and a subscription that is
\* cancelled or replaced does not become active again.
C28_OneActivePerStore ==
  /\ [](\A i, j \in 1..Len(subscriptions) :
          ( /\ subscriptions[i].storeId = subscriptions[j].storeId
            /\ subscriptions[i].status = "active"
            /\ subscriptions[j].status = "active" ) => i = j)
  /\ [][\A k \in 1..Len(subscriptions) :
          subscriptions[k].status \in {"cancelled", "replaced"}
            => subscriptions'[k].status # "active"]_vars

\* an order has a line of the store
HasItemOf(o, storeId) == \E i \in 1..Len(o.items) : o.items[i].storeId = storeId

\* C24: every order placed through POST /api/orders with an item of store S
\* is in the list GET /api/dashboard/orders/S answers with, and a status
\* update of it through PUT /api/dashboard/orders/S/:orderId/status is not
\* answered with 404.
C24_StoreOrdersListed ==
  /\ acctRes.message = "orders" =>
       \A k \in 1..Len(orders) :
         ( /\ HasItemOf(orders[k], acctRes.storeId)
           /\ acctRes.filter \in {"", orders[k].status} )
         => \E i \in 1..Len(acctRes.orders) : acctRes.orders[i].id = orders[k].id
  /\ acctRes.message = "Order not found" =>
       \A k \in 1..Len(orders) :
         orders[k].id = acctRes.id => ~HasItemOf(orders[k], acctRes.storeId)

\* C25: whatever claim requests the users send, no store is claimed more
\* than once: a request for a store that is claimed already adds no claim.
C25_StoreClaimedOnce ==
  \A i, j \in 1..Len(users) :
    \A a \in 1..Len(users[i].claimedStores), b \in 1..Len(users[j].claimedStores) :
      users[i].claimedStores[a] = users[j].claimedStores[b] => i = j /\ a = b

\* C26: a POST /api/orders that is rejected for an unknown inventory id or
\* for insufficient stock, on whichever line, changes nothing: the inventory
\* is what it was and no order or notification has been added.
C26_RejectedOrderChangesNothing ==
  [][(shopRes'.message \in {"Inventory item not found", "Insufficient stock"} /\ budget' < budget)
       => inventory' = inventory /\ orders' = orders /\ notifications' = notifications]_vars

\* C27: whatever cancel and status requests are served, the lines of an
\* order are given back to the inventory at most once, exactly once when the
\* order's status is cancelled, and what is given back never exceeds what
\* the orders took: no record holds more than it was seeded with.
C27_RestoredAtMostOnce ==
  /\ \A k \in 1..Len(orders) :
       /\ placed[k].restores <= 1
       /\ orders[k].status = "cancelled" => placed[k].restores = 1
  /\ \A i \in 1..Len(inventory) :
       ToNumber(inventory[i].quantity) <= SeedInventory[i].quantity.num

\* C6: whatever orders are placed, and whatever else the order routes are
\* asked to do, no inventory record's quantity is below 0.
C6_QuantityNeverNegative ==
  \A i \in 1..Len(inventory) : JsGeq(ToNumber(inventory[i].quantity), 0)

\* C7: cancelling an order, when nothing but that order has changed the
\* inventory since it was placed, leaves every record the order names with
\* the quantity and the inStock flag it had before the order.
C7_CancelRestores ==
  [][\A k \in 1..Len(orders) :
       ( /\ shopRes'.message = "Order cancelled" /\ shopRes'.id = orders[k].id
         /\ orders[k].status # "cancelled" /\ orders'[k].status = "cancelled"
         /\ placed[k].clean )
       => \A i \in 1..Len(orders[k].items) :
            LET id == orders[k].items[i].inventoryId
                now == inventory'[IndexOfId(inventory', id)]
                before == placed[k].before[IndexOfId(placed[k].before, id)]
            IN now.quantity = before.quantity /\ now.inStock = before.inStock]_vars

\* C8: whatever orders, cancellations and inventory or dashboard requests
\* have been served, no record whose quantity is 0 reports inStock = true.
C8_SoldOutNotInStock ==
  \A i \in 1..Len(inventory) :
    ToNumber(inventory[i].quantity) = 0 => ~inventory[i].inStock

\* C9: whatever bodies the inventory create, update and batch routes and the
\* dashboard bulk update have been sent, every record's quantity is an
\* integer >= 0.
C9_QuantityIsCount ==
  \A i \in 1..Len(inventory) :
    /\ inventory[i].quantity.kind = "number"
    /\ inventory[i].quantity.num # NaN
    /\ inventory[i].quantity.num >= 0

====
